---- MODULE Spec2Model ----
(***************************************************************************)
(* secmon: the daemon's event pipeline.                                    *)
(*                                                                         *)
(* Producers (inotify reader, /proc/net/tcp poller, udev monitor) send     *)
(* SecurityEvents on a tokio broadcast channel; every accepted socket      *)
(* connection owns one receiver and writes each event as a JSON line.      *)
(* The trigger engine runs inside the inotify reader, before the send.     *)
(***************************************************************************)
EXTENDS Integers, Sequences, FiniteSets, TLC

\* ------------------------------------------------------------------ bounds
\* broadcast::channel(1000), scaled down so that lag is reachable.
Capacity == 2
\* events the producers emit in one run, beyond one full ring
Slack == 2
\* lines a client writes towards the daemon
MaxLines == 1
\* the clock stops here
MaxTime == 6
\* inotify events read in one run
MaxReads == 3
\* socket clients
Clients == {"c1", "c2"}

\* --------------------------------------------------------------- constants
NoEvent == [id |-> 0, src |-> "none", type |-> "none", sev |-> "none", ts |-> 0]
\* no entry in the cooldown map
NeverRun == 0 - 1

VARIABLES
    \* --- broadcast channel (tokio::sync::broadcast)
    tail,        \* position of the next send
    slots,       \* ring buffer: index -> [pos, val]
    \* --- socket connections
    cl,          \* client end of each connection: "idle" | "queued" | "open" | "gone"
    hc,          \* handle_client task of each connection: "none" | "running" | "ended"
    rxnext,      \* cursor of the receiver owned by each handle_client task
    written,     \* lines the daemon wrote to each client's socket
    sockIn,      \* lines each client wrote towards the daemon, unread
    \* --- history
    published,   \* every event accepted by Sender::send, in order
    subAt,       \* tail when the connection's receiver was created
    lagged,      \* RecvError::Lagged results each connection has received
    maxBehind,   \* largest distance tail - cursor seen at a recv() of the connection
    \* --- inotify task and trigger engine
    now,         \* clock, in whole seconds
    fpc,         \* position of monitor_events
    cur,         \* the event monitor_events is holding
    ri,          \* index of the trigger being evaluated
    cooldowns,   \* trigger_cooldowns: name -> instant of the last accepted run
    running,     \* trigger commands that were launched and have not finished
    evlog,       \* every rule evaluation
    launches,    \* every call of execute_trigger
    \* --- one rule applied to one event, on its own
    gin,         \* the rule and the event
    gout,        \* the outcome of the rule's tests
    created,     \* events constructed so far
    \* --- classify_event applied to one raw inotify event, on its own
    cin,         \* base path, name and mask
    cout,        \* the event type and severity returned
    \* --- processes started from the daemon's binary, and the files they share
    dpc,         \* main() of each process: "off" | "daemonize" | "load" | "start" | "run" | "exited"
    daemonMode,  \* --daemon was given
    listening,   \* the process holds a bound UnixListener
    mainAt,      \* the thread polling main's future: "none" | "select" | "read"
    usbTask,     \* the spawn_blocking task of the USB monitor: "none" | "running" | "ended"
    sigs,        \* signals delivered to the process and not yet received by main
    exitWhy,     \* what ended the process
    probe,       \* what start() found at the socket path
    sockFile,    \* the socket path: "absent", or the process whose listener made it
    pidFile,     \* the PID file: "absent", or the process whose pid it holds
    \* --- SecurityMonitor::new and setup_watches, on their own
    wpc,         \* "new" | "setup" | "started" | "init_failed" | "watch_failed"
    watches,     \* config.watches: what each configured watch meets at setup
    wi,          \* index of the watch that setup_watches handles next
    watched_paths, \* indices of the watches that were installed
    \* --- the network poller (NetworkMonitor)
    npc,         \* start_monitoring: "init" | "loop"
    tcp,         \* remote endpoints of the entries in /proc/net/tcp and tcp6
    known_connections, \* NetworkMonitor.known_connections
    stayed,      \* endpoints in the tables at the start and at every moment since
    netlog,      \* every NetworkConnection event emitted: endpoint, severity, id
    \* --- classify_connection_severity applied to one address, on its own
    sin,         \* the remote address
    sout,        \* the severity returned
    \* --- the USB monitor
    usbIn,       \* the last udev event handled, and the parity of their count
    \* --- the connection tracker of network_ids.rs
    connection_tracker, \* source -> tracker
    seen,        \* (source, port) -> instant of its last observation in the scan window
    alerts,      \* every PortScanDetected alert generated
    \* --- the client program (bin/client.rs)
    connAt,      \* tail at the moment the client's connect() returned
    cmode,       \* "none" | "monitor" | "listen"
    connTime,    \* connection_time of listen_events
    rd,          \* lines the client has read from its socket
    shown,       \* events the client has displayed
    \* --- the senders of the broadcast channel
    closed,  \* TRUE once every Sender of the channel has been dropped
    \* --- the client's daemon commands (bin/client.rs)
    chk,  \* the last lifecycle command run, the parity of their count, the pid a stop is waiting for
    \* --- the details of one event, built on their own
    din, \* the producer and what it was handed
    dout,  \* the EventDetails it built
    \* --- the rules of the default configuration against the events the engine is handed
    handed, \* the kinds of event handed to process_event_triggers so far
    fired,  \* the default rules that have accepted one of them
    \* --- the client's notification limits (bin/client.rs)
    ncool, \* NOTIFICATION_COOLDOWNS: key -> instant of the last insert
    nrate, \* NOTIFICATION_RATE_LIMITER: instants of the notifications counted
    nsent   \* every call of should_send_notification that returned true: key and instant

busVars  == <<tail, slots, published>>
connVars == <<cl, hc, rxnext, written, sockIn, subAt, lagged, maxBehind>>
trigVars == <<now, fpc, cur, ri, cooldowns, running, evlog, launches>>
gateVars == <<gin, gout>>
classVars == <<cin, cout>>
lifeVars == <<dpc, daemonMode, listening, mainAt, usbTask, sigs, exitWhy, probe,
              sockFile, pidFile>>
watchVars == <<wpc, watches, wi, watched_paths>>
netVars == <<npc, tcp, known_connections, stayed, netlog>>
sevVars == <<sin, sout>>
usbVars == <<usbIn>>
idsVars == <<connection_tracker, seen, alerts>>
cliVars == <<connAt, cmode, connTime, rd, shown>>
chanVars == <<closed>>
ctlVars == <<chk>>
detVars == <<din, dout>>
dflVars == <<handed, fired>>
ntfVars == <<ncool, nrate, nsent>>
auxVars == <<watchVars, netVars, sevVars, usbVars, idsVars, cliVars, chanVars, ctlVars, detVars, dflVars, ntfVars>>
vars     == <<tail, slots, published, cl, hc, rxnext, written, sockIn, subAt,
              lagged, maxBehind, now, fpc, cur, ri, cooldowns, running,
              evlog, launches, created, gin, gout, cin, cout,
              dpc, daemonMode, listening, mainAt, usbTask, sigs, exitWhy, probe,
              sockFile, pidFile,
              wpc, watches, wi, watched_paths,
              npc, tcp, known_connections, stayed, netlog, sin, sout, usbIn,
              connection_tracker, seen, alerts,
              connAt, cmode, connTime, rd, shown,
              closed,
              chk,
              din, dout,
              handed, fired,
              ncool, nrate, nsent>>

\* ------------------------------------------------------ broadcast channel
RECURSIVE NextPowerOfTwoFrom(_, _)
NextPowerOfTwoFrom(n, p) == IF p >= n THEN p ELSE NextPowerOfTwoFrom(n, 2 * p)

\* the channel rounds the requested capacity up to a power of two
BufLen == NextPowerOfTwoFrom(Capacity, 1)

MaxEvents == BufLen + Slack

SlotIdx(pos) == pos % BufLen

\* receivers alive if the monitor kept none of its own
RxCountTasksOnly == Cardinality({c \in Clients : hc[c] = "running"})

\* receivers alive: the monitor's own _event_receiver plus one per running task
RxCount == 1 + Cardinality({c \in Clients : hc[c] = "running"})

\* Sender::send: fails only when no receiver exists
SendOk == RxCount > 0

Send(e) ==
    IF SendOk
    THEN /\ slots' = [slots EXCEPT ![SlotIdx(tail)] = [pos |-> tail, val |-> e]]
         /\ tail' = tail + 1
         /\ published' = Append(published, e)
    ELSE UNCHANGED busVars

\* a receiver that takes whatever the slot holds, without the position test
RecvKindNoLag(n) ==
    LET slot == slots[SlotIdx(n)] IN
    IF slot.pos + BufLen = n THEN "empty" ELSE "ok"

\* Receiver::recv for a cursor n: "ok", "lagged" or "empty"
RecvKind(n) ==
    LET slot == slots[SlotIdx(n)] IN
    IF slot.pos = n THEN "ok"
    ELSE IF slot.pos + BufLen = n THEN "empty"
    ELSE "lagged"

\* a receiver that reports closure as soon as the senders are gone
RecvResultClosedFirst(n) == IF closed THEN "closed" ELSE RecvKind(n)

\* Receiver::recv with the senders counted: Closed is returned only by a
\* receiver that has caught up; retained values and Lagged come first
RecvResult(n) == IF RecvKind(n) = "empty" /\ closed THEN "closed" ELSE RecvKind(n)

\* where a lagged receiver resumes
LagResume == tail - BufLen

Max(a, b) == IF a >= b THEN a ELSE b

\* history only: how far behind each live receiver is once tail has moved
TrackBehind ==
    maxBehind' = [c \in Clients |->
                    IF hc[c] = "running"
                    THEN Max(maxBehind[c], tail' - rxnext[c])
                    ELSE maxBehind[c]]

\* ------------------------------------------------------------- producers
NetSeverities == {"High"}
UsbActions == {"Add", "Remove", "Change"}

NewEvent(src, type, sev) ==
    [id |-> created + 1, src |-> src, type |-> type, sev |-> sev, ts |-> now]

\* NetworkMonitor::emit_network_event: build the event and send it
EmitNetworkEvent ==
    /\ created < MaxEvents
    /\ ~closed
    /\ \E sev \in NetSeverities :
          Send(NewEvent("net", "NetworkConnection", sev))
    /\ created' = created + 1
    /\ TrackBehind
    /\ UNCHANGED <<cl, hc, rxnext, written, sockIn, subAt, lagged>>
    /\ UNCHANGED trigVars
    /\ UNCHANGED <<gateVars, classVars, lifeVars, auxVars>>

\* -------------------------------------------------------- trigger engine
\* the [[triggers]] of the loaded configuration
Triggers == <<
    [name |-> "cam", enabled |-> TRUE,
     event_types |-> {"CameraAccess", "FileModify"},
     min_severity |-> "High", run_async |-> TRUE, cooldown_seconds |-> 5],
    [name |-> "keys", enabled |-> TRUE,
     event_types |-> {"SshAccess", "FileModify"},
     min_severity |-> "Low", run_async |-> FALSE, cooldown_seconds |-> 2],
    [name |-> "off", enabled |-> FALSE,
     event_types |-> {"CameraAccess", "SshAccess", "FileModify"},
     min_severity |-> "Low", run_async |-> TRUE, cooldown_seconds |-> 0],
    [name |-> "any", enabled |-> TRUE,
     event_types |-> {"NetworkConnection", "UsbDeviceInserted"},
     min_severity |-> "Low", run_async |-> FALSE, cooldown_seconds |-> 0] >>

\* what classify_event makes of the raw inotify events fed to the model
FsKinds == {[type |-> "CameraAccess", sev |-> "High"],
            [type |-> "FileModify",   sev |-> "Low"]}

\* the match on EventType in process_event_triggers
EventTypeStr(t) == t

EventLevel(sev) ==
    CASE sev = "Low" -> 1
      [] sev = "Medium" -> 2
      [] sev = "High" -> 3
      [] sev = "Critical" -> 4

\* a minimum that falls back to Low
MinLevelLowDefault(min) ==
    CASE min = "Low" -> 1
      [] min = "Medium" -> 2
      [] min = "High" -> 3
      [] min = "Critical" -> 4
      [] OTHER -> 1

MinLevel(min) ==
    CASE min = "Low" -> 1
      [] min = "Medium" -> 2
      [] min = "High" -> 3
      [] min = "Critical" -> 4
      [] OTHER -> 2

\* severity_meets_minimum
SeverityMeetsMinimum(sev, min) == EventLevel(sev) >= MinLevel(min)

\* a cooldown test that also refuses the instant the cooldown ends
CooldownElapsedStrict(cd, name, secs, t) ==
    IF name \in DOMAIN cd THEN ~(t - cd[name] <= secs) ELSE TRUE

\* a cooldown test that keeps refusing for twice the configured time
CooldownElapsedTwice(cd, name, secs, t) ==
    IF name \in DOMAIN cd THEN ~(t - cd[name] < 2 * secs) ELSE TRUE

\* check_trigger_cooldown, the test: may the rule run at instant t?
CooldownElapsed(cd, name, secs, t) ==
    IF name \in DOMAIN cd THEN ~(t - cd[name] < secs) ELSE TRUE

\* an insert that is lost
CooldownInsertLost(cd, name, t) == cd

\* check_trigger_cooldown, the insert
CooldownInsert(cd, name, t) ==
    [n \in DOMAIN cd \cup {name} |-> IF n = name THEN t ELSE cd[n]]

\* a rule that tests nothing but the cooldown
RuleVerdictUngated(tr, e, cd, t) ==
    IF ~CooldownElapsed(cd, tr.name, tr.cooldown_seconds, t) THEN "cooldown"
    ELSE "accept"

\* the tests of one pass of the loop in process_event_triggers, in order
RuleVerdict(tr, e, cd, t) ==
    IF ~tr.enabled THEN "disabled"
    ELSE IF EventTypeStr(e.type) \notin tr.event_types THEN "type"
    ELSE IF ~SeverityMeetsMinimum(e.sev, tr.min_severity) THEN "severity"
    ELSE IF ~CooldownElapsed(cd, tr.name, tr.cooldown_seconds, t) THEN "cooldown"
    ELSE "accept"

Busy(name) == \E k \in running : k.rule = name

EvalRecord(j, e, cd, t) ==
    [ev |-> e.id, type |-> e.type, sev |-> e.sev, rule |-> Triggers[j].name,
     at |-> t, res |-> RuleVerdict(Triggers[j], e, cd, t), busy |-> Busy(Triggers[j].name)]

\* the first rule from index j on that accepts e, or 0
RECURSIVE FirstAccepting(_, _, _, _)
FirstAccepting(j, e, cd, t) ==
    IF j > Len(Triggers) THEN 0
    ELSE IF RuleVerdict(Triggers[j], e, cd, t) = "accept" THEN j
    ELSE FirstAccepting(j + 1, e, cd, t)

\* inotify events read so far
Reads == Cardinality({r.ev : r \in evlog})

\* monitor_events: read one inotify event and build the SecurityEvent
MonitorEventsRead ==
    /\ fpc = "read"
    /\ created < MaxEvents
    /\ Reads < MaxReads
    /\ \E k \in FsKinds : cur' = NewEvent("fs", k.type, k.sev)
    /\ created' = created + 1
    /\ ri' = 1
    /\ fpc' = "triggers"
    /\ UNCHANGED <<now, cooldowns, running, evlog, launches>>
    /\ UNCHANGED <<busVars, connVars>>
    /\ UNCHANGED <<gateVars, classVars, lifeVars, auxVars>>

\* process_event_triggers: run the loop up to the next rule that accepts
\* (its cooldown entry is written here) or to the end of the rules
ProcessEventTriggers ==
    /\ fpc = "triggers"
    /\ LET j    == FirstAccepting(ri, cur, cooldowns, now)
           last == IF j = 0 THEN Len(Triggers) ELSE j
       IN
       /\ evlog' = evlog \cup {EvalRecord(i, cur, cooldowns, now) : i \in ri..last}
       /\ IF j = 0
          THEN /\ fpc' = "send"
               /\ ri' = 0
               /\ cooldowns' = cooldowns
          ELSE /\ fpc' = "exec"
               /\ ri' = j
               /\ cooldowns' = CooldownInsert(cooldowns, Triggers[j].name, now)
    /\ UNCHANGED <<now, cur, running, launches, created>>
    /\ UNCHANGED <<busVars, connVars>>
    /\ UNCHANGED <<gateVars, classVars, lifeVars, auxVars>>

\* a spawn error that is propagated out of the loop over the inotify events
AfterSpawnAbort(spawned, run_async) ==
    IF ~spawned THEN "read"
    ELSE IF ~run_async THEN "wait" ELSE "triggers"

\* where monitor_events stands once execute_trigger has tried to spawn: the
\* error of a failed spawn is only logged, a synchronous rule awaits the exit
AfterSpawn(spawned, run_async) ==
    IF spawned /\ ~run_async THEN "wait" ELSE "triggers"

\* execute_trigger: spawn the command; a synchronous rule awaits its exit
ExecuteTrigger ==
    /\ fpc = "exec"
    /\ LET tr == Triggers[ri] IN
       \E spawned \in BOOLEAN :
          /\ launches' = Append(launches,
                            [rule |-> tr.name, ev |-> cur.id, type |-> cur.type,
                             at |-> now, ok |-> spawned,
                             lf |-> IF tr.name \in DOMAIN cooldowns
                                    THEN cooldowns[tr.name] ELSE NeverRun])
          /\ running' = IF spawned
                        THEN running \cup {[rule |-> tr.name, ev |-> cur.id]}
                        ELSE running
          /\ fpc' = AfterSpawn(spawned, tr.run_async)
          /\ ri' = IF fpc' = "triggers" THEN ri + 1 ELSE ri
    /\ UNCHANGED <<now, cur, cooldowns, evlog, created>>
    /\ UNCHANGED <<busVars, connVars>>
    /\ UNCHANGED <<gateVars, classVars, lifeVars, auxVars>>

\* a launched command exits; the one execute_trigger awaits resumes the loop
CommandExit ==
    /\ fpc \in {"read", "wait"}
    /\ \E k \in running :
          /\ running' = running \ {k}
          /\ IF fpc = "wait" /\ k = [rule |-> Triggers[ri].name, ev |-> cur.id]
             THEN fpc' = "triggers" /\ ri' = ri + 1
             ELSE fpc' = fpc /\ ri' = ri
    /\ UNCHANGED <<now, cur, cooldowns, evlog, launches, created>>
    /\ UNCHANGED <<busVars, connVars>>
    /\ UNCHANGED <<gateVars, classVars, lifeVars, auxVars>>

\* monitor_events: send the event once its triggers are done
MonitorEventsSend ==
    /\ fpc = "send"
    /\ Send(cur)
    /\ cur' = NoEvent
    /\ fpc' = "read"
    /\ TrackBehind
    /\ UNCHANGED <<now, ri, cooldowns, running, evlog, launches, created>>
    /\ UNCHANGED <<cl, hc, rxnext, written, sockIn, subAt, lagged>>
    /\ UNCHANGED <<gateVars, classVars, lifeVars, auxVars>>

\* a second passes while the inotify task is blocked in a read or an await
Tick ==
    /\ now < MaxTime
    /\ fpc \in {"read", "wait"}
    /\ now' = now + 1
    /\ UNCHANGED <<fpc, cur, ri, cooldowns, running, evlog, launches, created>>
    /\ UNCHANGED <<busVars, connVars>>
    /\ UNCHANGED <<gateVars, classVars, lifeVars, auxVars>>

\* ------------------------------------------------------ socket connections
\* the last Sender goes: the monitor and the tasks spawned by start(), each
\* holding a clone, are dropped when main returns and the runtime shuts down
DropSenders ==
    /\ ~closed
    /\ closed' = TRUE
    /\ UNCHANGED <<busVars, connVars, trigVars, created>>
    /\ UNCHANGED <<gateVars, classVars, lifeVars>>
    /\ UNCHANGED <<watchVars, netVars, sevVars, usbVars, idsVars, cliVars, ctlVars, detVars, dflVars, ntfVars>>

\* a client connects to the listening socket (client.rs, msg.rs send_event)
ClientConnect(c) ==
    /\ cl[c] = "idle"
    /\ cl' = [cl EXCEPT ![c] = "open"]
    /\ hc' = [hc EXCEPT ![c] = "queued"]
    /\ connAt' = [connAt EXCEPT ![c] = tail]
    /\ UNCHANGED <<rxnext, written, sockIn, subAt, lagged, maxBehind>>
    /\ UNCHANGED <<busVars, trigVars, created>>
    /\ UNCHANGED <<gateVars, classVars, lifeVars>>
    /\ UNCHANGED <<watchVars, netVars, sevVars, usbVars, idsVars, chanVars, ctlVars, detVars, dflVars, ntfVars>>
    /\ UNCHANGED <<cmode, connTime, rd, shown>>

\* msg.rs send_event: write one JSON line on the connection
IngressLines == {[path |-> "/x", ts |-> "omitted"], [path |-> "/x", ts |-> "given"]}

ClientWrite(c) ==
    /\ cl[c] = "open"
    /\ Len(sockIn[c]) < MaxLines
    /\ \E line \in IngressLines : sockIn' = [sockIn EXCEPT ![c] = Append(@, line)]
    /\ UNCHANGED <<cl, hc, rxnext, written, subAt, lagged, maxBehind>>
    /\ UNCHANGED <<busVars, trigVars, created>>
    /\ UNCHANGED <<gateVars, classVars, lifeVars, auxVars>>

\* the client closes its end (msg.rs returns, a monitor client exits)
ClientClose(c) ==
    /\ cl[c] = "open"
    /\ cl' = [cl EXCEPT ![c] = "gone"]
    /\ UNCHANGED <<hc, rxnext, written, sockIn, subAt, lagged, maxBehind>>
    /\ UNCHANGED <<busVars, trigVars, created>>
    /\ UNCHANGED <<gateVars, classVars, lifeVars, auxVars>>

\* handle_socket_connections: accept, subscribe, spawn handle_client
HandleSocketConnections(c) ==
    /\ hc[c] = "queued"
    /\ ~closed
    /\ hc' = [hc EXCEPT ![c] = "running"]
    /\ rxnext' = [rxnext EXCEPT ![c] = tail]
    /\ subAt' = [subAt EXCEPT ![c] = tail]
    /\ UNCHANGED <<cl, written, sockIn, lagged, maxBehind>>
    /\ UNCHANGED <<busVars, trigVars, created>>
    /\ UNCHANGED <<gateVars, classVars, lifeVars, auxVars>>

\* a cursor that is not moved
AdvanceCursorStuck(n) == n

\* the cursor after a successful recv
AdvanceCursor(n) == n + 1

\* a write that loses the line
WriteLineDrop(w, e) == w

\* the socket after write_all of one serialized event
WriteLine(w, e) == Append(w, e)

\* a Lagged arm that leaves the loop
AfterLaggedBreak == "ended"

\* the task after the Lagged arm: it only logs
AfterLagged == "running"

\* a write error that takes every connection task down
AfterWriteErrorAll(h, c) == [d \in Clients |-> "ended"]

\* the tasks after write_all fails on connection c: `break` leaves c's loop
AfterWriteError(h, c) == [h EXCEPT ![c] = "ended"]

\* handle_client: one turn of the loop (recv, then the matching arm)
HandleClient(c) ==
    /\ hc[c] = "running"
    /\ LET n    == rxnext[c]
           kind == RecvResult(n)
       IN
       /\ kind # "empty"
       /\ lagged' = [lagged EXCEPT ![c] = IF kind = "lagged" THEN @ + 1 ELSE @]
       /\ maxBehind' = [maxBehind EXCEPT ![c] = Max(@, tail - n)]
       /\ IF kind = "closed"
          THEN /\ hc' = [hc EXCEPT ![c] = "closed"]
               /\ UNCHANGED <<rxnext, written>>
          ELSE IF kind = "ok"
          THEN /\ rxnext' = [rxnext EXCEPT ![c] = AdvanceCursor(n)]
               /\ IF cl[c] = "open"
                  THEN /\ written' = [written EXCEPT ![c] =
                                        WriteLine(@, slots[SlotIdx(n)].val)]
                       /\ hc' = hc
                  ELSE /\ written' = written
                       /\ hc' = AfterWriteError(hc, c)
          ELSE /\ rxnext' = [rxnext EXCEPT ![c] = LagResume]
               /\ hc' = [hc EXCEPT ![c] = AfterLagged]
               /\ written' = written
    /\ UNCHANGED <<cl, sockIn, subAt>>
    /\ UNCHANGED <<busVars, trigVars, created>>
    /\ UNCHANGED <<gateVars, classVars, lifeVars, auxVars>>

\* ------------------------------------------- one rule against one event
Severities == {"Low", "Medium", "High", "Critical"}
MinStrings == {"Low", "Medium", "High", "Critical", "critical", "HIGH", "", "Urgent"}
GateTypes == {"CameraAccess", "FileModify"}

GateInputs ==
    [enabled : BOOLEAN,
     event_types : {{"CameraAccess"}, {"FileModify", "CameraAccess"}, {}},
     min_severity : MinStrings, type : GateTypes, sev : Severities]

NoInput == [enabled |-> FALSE, event_types |-> {}, min_severity |-> "",
            type |-> "none", sev |-> "none"]

\* process_event_triggers for a single rule whose cooldown map is empty
ApplyRule ==
    /\ gout = "none"
    /\ gin # NoInput
    /\ gout' = RuleVerdict([name |-> "r", enabled |-> gin.enabled,
                            event_types |-> gin.event_types,
                            min_severity |-> gin.min_severity,
                            run_async |-> TRUE, cooldown_seconds |-> 0],
                           [id |-> 1, src |-> "fs", type |-> gin.type,
                            sev |-> gin.sev, ts |-> 0],
                           cooldowns, now)
    /\ gin' = gin
    /\ UNCHANGED <<busVars, connVars, trigVars, created>>
    /\ UNCHANGED <<classVars, lifeVars, auxVars>>

\* ------------------------------------------------------------ classifier
\* A path is the sequence of the pieces its text is cut into; the cut is fine
\* enough that every text classify_event searches for is a run of pieces.
NoName == <<>>

\* str::to_lowercase, piece by piece
LowerPiece(a) ==
    CASE a = "VIDEO" -> "video"
      [] a = "CAMERA" -> "camera"
      [] a = "SSH" -> "ssh"
      [] a = "ID_RSA" -> "id_rsa"
      [] a = "Authorized_Keys" -> "authorized_keys"
      [] a = "ALSA" -> "alsa"
      [] a = "HID" -> "hid"
      [] a = "Keyboard" -> "keyboard"
      [] a = "Mouse" -> "mouse"
      [] a = "Storage" -> "storage"
      [] a = "DISK" -> "disk"
      [] OTHER -> a

ToLowercase(p) == [i \in DOMAIN p |-> LowerPiece(p[i])]

\* str::contains
Contains(p, needle) ==
    \E i \in 0..(Len(p) - Len(needle)) : SubSeq(p, i + 1, i + Len(needle)) = needle

\* create_security_event: base_path.join(name), or the base path itself
FullPath(base, name) == IF name = NoName THEN base ELSE base \o <<"/">> \o name

\* EventMask::contains
MaskContains(mask, bit) == bit \in mask

NoRule == [type |-> "none", sev |-> "none"]

\* path rules tested in the order SSH, microphone, camera
PathRuleSshFirst(base_str, path_str) ==
    IF \/ Contains(base_str, <<"ssh">>) \/ Contains(path_str, <<".", "ssh">>)
       \/ Contains(path_str, <<"authorized_keys">>)
    THEN [type |-> "SshAccess",
          sev |-> IF \/ Contains(path_str, <<"authorized_keys">>)
                     \/ Contains(path_str, <<"id_rsa">>)
                  THEN "Critical" ELSE "High"]
    ELSE IF \/ Contains(base_str, <<"snd">>)
            \/ Contains(path_str, <<"/", "dev", "/", "snd", "/">>)
            \/ Contains(path_str, <<"pcm">>) \/ Contains(path_str, <<"audio">>)
            \/ Contains(base_str, <<"alsa">>) \/ Contains(path_str, <<"pulse">>)
    THEN [type |-> "MicrophoneAccess", sev |-> "High"]
    ELSE IF \/ Contains(base_str, <<"video">>) \/ Contains(base_str, <<"camera">>)
            \/ Contains(path_str, <<"/", "dev", "/", "video">>)
    THEN [type |-> "CameraAccess", sev |-> "High"]
    ELSE NoRule

\* classify_event, the three tests on the lowercased base and full path
PathRule(base_str, path_str) ==
    IF \/ Contains(base_str, <<"video">>) \/ Contains(base_str, <<"camera">>)
       \/ Contains(path_str, <<"/", "dev", "/", "video">>)
    THEN [type |-> "CameraAccess", sev |-> "High"]
    ELSE IF \/ Contains(base_str, <<"snd">>)
            \/ Contains(path_str, <<"/", "dev", "/", "snd", "/">>)
            \/ Contains(path_str, <<"pcm">>) \/ Contains(path_str, <<"audio">>)
            \/ Contains(base_str, <<"alsa">>) \/ Contains(path_str, <<"pulse">>)
    THEN [type |-> "MicrophoneAccess", sev |-> "High"]
    ELSE IF \/ Contains(base_str, <<"ssh">>) \/ Contains(path_str, <<".", "ssh">>)
            \/ Contains(path_str, <<"authorized_keys">>)
    THEN [type |-> "SshAccess",
          sev |-> IF \/ Contains(path_str, <<"authorized_keys">>)
                     \/ Contains(path_str, <<"id_rsa">>)
                  THEN "Critical" ELSE "High"]
    ELSE NoRule

\* mask rules that test MODIFY before CREATE and DELETE
MaskRuleModifyFirst(mask) ==
    IF MaskContains(mask, "MODIFY") THEN [type |-> "FileModify", sev |-> "Low"]
    ELSE IF MaskContains(mask, "CREATE") THEN [type |-> "FileCreate", sev |-> "Medium"]
    ELSE IF MaskContains(mask, "DELETE") THEN [type |-> "FileDelete", sev |-> "Medium"]
    ELSE [type |-> "FileAccess", sev |-> "Low"]

\* classify_event, the chain of tests on the mask
MaskRule(mask) ==
    IF MaskContains(mask, "CREATE") THEN [type |-> "FileCreate", sev |-> "Medium"]
    ELSE IF MaskContains(mask, "DELETE") THEN [type |-> "FileDelete", sev |-> "Medium"]
    ELSE IF MaskContains(mask, "MODIFY") THEN [type |-> "FileModify", sev |-> "Low"]
    ELSE IF MaskContains(mask, "ACCESS") \/ MaskContains(mask, "OPEN")
    THEN [type |-> "FileAccess", sev |-> "Low"]
    ELSE [type |-> "FileAccess", sev |-> "Low"]

\* classify_event
ClassifyEvent(base, full, mask) ==
    LET base_str == ToLowercase(base)
        path_str == ToLowercase(full)
    IN  IF PathRule(base_str, path_str) # NoRule
        THEN PathRule(base_str, path_str)
        ELSE MaskRule(mask)

\* watched paths, names reported by the kernel and masks fed to the classifier
BasePaths ==
    {<<"/", "tmp">>, <<"/", "etc">>, <<"/", "home">>, <<"/", "dev">>,
     <<"/", "dev", "/", "video", "0">>, <<"/", "dev", "/", "snd">>,
     <<"/", "srv", "/", "CAMERA">>, <<"/", "usr", "/", "share", "/", "alsa">>,
     <<"/", "home", "/", "alice", "/", ".", "ssh">>, <<"/", "etc", "/", "SSH">>}

Names ==
    {NoName, <<"x">>, <<"video", "0">>, <<"VIDEO", "1">>, <<"pcm", "C0D0p">>,
     <<"audio", ".", "log">>, <<"audio", "_", "authorized_keys">>,
     <<"ALSA", ".", "conf">>, <<"pulse">>,
     <<"authorized_keys">>, <<"id_rsa">>, <<"ID_RSA", ".", "pub">>,
     <<"alice", "/", ".", "ssh", "/", "authorized_keys">>,
     <<"alice", "/", ".", "ssh", "/", "config">>}

MaskBits == {"CREATE", "DELETE", "MODIFY", "ACCESS", "OPEN", "ISDIR"}

ClassifierInputs == [base : BasePaths, name : Names, mask : SUBSET MaskBits]

NoClassInput == [base |-> <<>>, name |-> NoName, mask |-> {}]

\* create_security_event: join the name to the base and classify
CreateSecurityEvent ==
    /\ cout = NoRule
    /\ cin # NoClassInput
    /\ cout' = ClassifyEvent(cin.base, FullPath(cin.base, cin.name), cin.mask)
    /\ cin' = cin
    /\ UNCHANGED <<busVars, connVars, trigVars, created>>
    /\ UNCHANGED <<gateVars, lifeVars, auxVars>>

\* ------------------------------------------------------------ USB monitor
\* a property or attribute the udev device does not have
Absent == <<>>

\* what emit_usb_insertion_event reads from the udev device; a text is the
\* sequence of its pieces, as for paths
UsbDevice(devtype, vendor_id, product_id, vendor, product) ==
    [device_type |-> devtype, vendor_id |-> vendor_id, product_id |-> product_id,
     vendor |-> vendor, product |-> product]

UsbDevices ==
    {UsbDevice(<<"usb", "_", "device">>, <<"dead">>, <<"0001">>, <<"Generic">>, <<"Hub">>),
     UsbDevice(<<"usb", "_", "device">>, <<"f000">>, <<"0002">>, <<"Generic">>, <<"HID", "_", "Keyboard">>),
     UsbDevice(<<"usb", "_", "device">>, <<"046d">>, <<"c31c">>, <<"Logitech">>, <<"USB", "_", "Keyboard">>),
     UsbDevice(<<"usb", "_", "device">>, <<"0781">>, <<"5567">>, <<"SanDisk">>, <<"USB", "_", "DISK">>),
     UsbDevice(<<"usb", "_", "device">>, <<"1234">>, <<"5678">>, <<"Generic">>, <<"Keyboard", "_", "Storage">>),
     UsbDevice(<<"usb", "_", "device">>, <<"1d6b">>, <<"0002">>, <<"Linux">>, <<"Hub">>),
     UsbDevice(<<"usb", "_", "device">>, Absent, Absent, Absent, <<"Hub">>),
     UsbDevice(<<"usb", "_", "device">>, Absent, Absent, Absent, <<"Mouse">>),
     UsbDevice(<<"usb", "_", "device">>, <<"dead">>, Absent, Absent, Absent),
     UsbDevice(<<"usb", "_", "interface">>, <<"dead">>, <<"0001">>, <<"Generic">>, <<"Hub">>),
     UsbDevice(Absent, <<"046d">>, <<"c077">>, <<"Logitech">>, <<"Mouse">>),
     UsbDevice(<<"usb", "_", "interface">>, Absent, Absent, Absent, Absent)}

\* the values of the metadata map built for the device
MetadataValues(dev) ==
    {v \in {dev.device_type, dev.vendor_id, dev.product_id, dev.vendor, dev.product} :
        v # Absent}

\* is_mass_storage_device
IsMassStorageDevice(dev) ==
    \E v \in MetadataValues(dev) :
        \/ Contains(ToLowercase(v), <<"mass", "_", "storage">>)
        \/ Contains(ToLowercase(v), <<"storage">>)
        \/ Contains(ToLowercase(v), <<"disk">>)

\* is_hid_device
IsHidDevice(dev) ==
    \E v \in MetadataValues(dev) :
        \/ Contains(ToLowercase(v), <<"hid">>)
        \/ Contains(ToLowercase(v), <<"keyboard">>)
        \/ Contains(ToLowercase(v), <<"mouse">>)

\* classify_usb_device_severity
ClassifyUsbDeviceSeverity(dev) ==
    IF dev.device_type = Absent THEN "Low"
    ELSE IF dev.device_type # <<"usb", "_", "device">> THEN "Low"
    ELSE IF dev.vendor_id = Absent \/ dev.product_id = Absent THEN "Medium"
    ELSE IF dev.vendor_id = <<"f000">> \/ dev.vendor_id = <<"dead">> THEN "Critical"
    ELSE IF IsMassStorageDevice(dev) THEN "Medium"
    ELSE IF IsHidDevice(dev) THEN "High"
    ELSE "Low"

\* the udev events the monitor socket delivers
UsbEvents ==
    {[action |-> "Add", dev |-> d] : d \in UsbDevices}
    \cup {[action |-> a, dev |-> UsbDevice(<<"usb", "_", "device">>, Absent, Absent, Absent, Absent)] :
            a \in UsbActions \ {"Add"}}

NoUsbEvent == [k |-> 0, action |-> "none", dev |-> Absent]

\* a handler that treats every action it does not know as a removal
UsbEventsSentAll(action) == <<"Low">>

\* handle_usb_event: the severities of the events the action makes it send,
\* the insertion's being computed from the device
UsbEventsSent(action) ==
    CASE action = "Add" -> <<"classified">>
      [] action = "Remove" -> <<"Low">>
      [] OTHER -> <<>>

\* UsbMonitor::handle_usb_event: Add and Remove send, the rest is ignored
HandleUsbEvent ==
    /\ created < MaxEvents
    /\ \E ev \in UsbEvents :
          LET sent == UsbEventsSent(ev.action) IN
          /\ usbIn' = [k |-> 1 - usbIn.k, action |-> ev.action, dev |-> ev.dev]
          /\ IF sent = <<>>
             THEN /\ UNCHANGED busVars
                  /\ created' = created
             ELSE /\ Send(NewEvent("usb", "UsbDeviceInserted",
                                   IF sent[1] = "classified"
                                   THEN ClassifyUsbDeviceSeverity(ev.dev)
                                   ELSE sent[1]))
                  /\ created' = created + 1
    /\ TrackBehind
    /\ UNCHANGED <<cl, hc, rxnext, written, sockIn, subAt, lagged>>
    /\ UNCHANGED trigVars
    /\ UNCHANGED <<gateVars, classVars, lifeVars>>
    /\ UNCHANGED <<watchVars, netVars, sevVars, idsVars, cliVars, chanVars, ctlVars, detVars, dflVars, ntfVars>>

\* --------------------------------------------------- start-up and shutdown
\* processes started from the daemon's binary on one socket path and one
\* PID file path
Daemons == {"d1", "d2"}
\* a process that died before any of them started
Old == "old"
Signals == {"SIGINT", "SIGTERM"}

\* /proc/<pid> exists for the pid the PID file holds
PidAlive(f) == f \in Daemons /\ dpc[f] \notin {"off", "exited"}

\* a probe that takes every socket file for a stale one
ConnectOkNever(f) == FALSE

\* UnixStream::connect(socket_path).await.is_ok(): somebody accepts on the inode
ConnectOk(f) == f \in Daemons /\ listening[f]

\* a cleanup that leaves the socket of a listening process alone
CleanupSocketGuarded(f) == IF ConnectOk(f) THEN f ELSE "absent"

\* cleanup_on_exit, the socket path: removed if it exists
CleanupSocket(f) == "absent"

\* cleanup_on_exit, the PID file: removed in daemon mode if it exists
CleanupPid(f, daemon_mode) == IF daemon_mode THEN "absent" ELSE f

\* Drop for SecurityMonitor: the socket path is removed if it exists
DropMonitor(f) == "absent"

\* the process is gone: its listener, its tasks and its pending signals with it
ProcessExit(d, why) ==
    /\ dpc' = [dpc EXCEPT ![d] = "exited"]
    /\ exitWhy' = [exitWhy EXCEPT ![d] = why]
    /\ listening' = [listening EXCEPT ![d] = FALSE]
    /\ mainAt' = [mainAt EXCEPT ![d] = "none"]
    /\ sigs' = [sigs EXCEPT ![d] = {}]

PipelineUnchanged ==
    /\ UNCHANGED <<busVars, connVars, trigVars, created>>
    /\ UNCHANGED <<gateVars, classVars, auxVars>>

\* main: the arguments are parsed
Launch(d) ==
    /\ dpc[d] = "off"
    /\ \E dm \in BOOLEAN :
          /\ daemonMode' = [daemonMode EXCEPT ![d] = dm]
          /\ dpc' = [dpc EXCEPT ![d] = IF dm THEN "daemonize" ELSE "load"]
    /\ UNCHANGED <<listening, mainAt, usbTask, sigs, exitWhy, probe, sockFile, pidFile>>
    /\ PipelineUnchanged

\* daemonize: refuse when the PID file names a live process, else write it
Daemonize(d) ==
    /\ dpc[d] = "daemonize"
    /\ IF pidFile # "absent" /\ PidAlive(pidFile)
       THEN /\ ProcessExit(d, "already")
            /\ pidFile' = pidFile
       ELSE /\ pidFile' = d
            /\ dpc' = [dpc EXCEPT ![d] = "load"]
            /\ UNCHANGED <<listening, mainAt, sigs, exitWhy>>
    /\ UNCHANGED <<daemonMode, usbTask, probe, sockFile>>
    /\ PipelineUnchanged

\* main: Config::load and SecurityMonitor::new; an error leaves main by `?`
LoadConfig(d) ==
    /\ dpc[d] = "load"
    /\ \E ok \in BOOLEAN :
          IF ok
          THEN /\ dpc' = [dpc EXCEPT ![d] = "start"]
               /\ UNCHANGED <<listening, mainAt, sigs, exitWhy>>
          ELSE ProcessExit(d, "startup")
    /\ UNCHANGED <<daemonMode, usbTask, probe, sockFile, pidFile>>
    /\ PipelineUnchanged

\* start, up to its select!: probe the socket path, bind, spawn the tasks;
\* on Err main calls cleanup_on_exit and exits with status 1
Start(d) ==
    /\ dpc[d] = "start"
    /\ LET found == IF sockFile = "absent" THEN "absent"
                    ELSE IF ConnectOk(sockFile) THEN "live" ELSE "stale"
       IN
       /\ probe' = [probe EXCEPT ![d] = found]
       /\ IF found = "live"
          THEN /\ sockFile' = CleanupSocket(sockFile)
               /\ pidFile' = CleanupPid(pidFile, daemonMode[d])
               /\ ProcessExit(d, "error")
               /\ usbTask' = usbTask
          ELSE /\ sockFile' = d
               /\ listening' = [listening EXCEPT ![d] = TRUE]
               /\ usbTask' = [usbTask EXCEPT ![d] = "running"]
               /\ mainAt' = [mainAt EXCEPT ![d] = "select"]
               /\ dpc' = [dpc EXCEPT ![d] = "run"]
               /\ UNCHANGED <<sigs, exitWhy, pidFile>>
    /\ UNCHANGED daemonMode
    /\ PipelineUnchanged

\* monitor_events is polled and enters read_events_blocking on the thread
\* that polls main's future
MonitorEventsBlock(d) ==
    /\ dpc[d] = "run"
    /\ mainAt[d] = "select"
    /\ mainAt' = [mainAt EXCEPT ![d] = "read"]
    /\ UNCHANGED <<dpc, daemonMode, listening, usbTask, sigs, exitWhy, probe,
                   sockFile, pidFile>>
    /\ PipelineUnchanged

\* the kernel reports an inotify event: the read returns and the event is
\* processed; the future yields only where a synchronous trigger command is
\* awaited, otherwise the loop is back in the blocking read
InotifyEvent(d) ==
    /\ dpc[d] = "run"
    /\ mainAt[d] = "read"
    /\ \E yields \in BOOLEAN :
          mainAt' = [mainAt EXCEPT ![d] = IF yields THEN "select" ELSE "read"]
    /\ UNCHANGED <<dpc, daemonMode, listening, usbTask, sigs, exitWhy, probe,
                   sockFile, pidFile>>
    /\ PipelineUnchanged

\* UsbMonitor::new or start_monitoring cannot open the hotplug monitor: a
\* warning, and the blocking task returns
UsbMonitorFails(d) ==
    /\ dpc[d] = "run"
    /\ usbTask[d] = "running"
    /\ usbTask' = [usbTask EXCEPT ![d] = "ended"]
    /\ UNCHANGED <<dpc, daemonMode, listening, mainAt, sigs, exitWhy, probe,
                   sockFile, pidFile>>
    /\ PipelineUnchanged

\* start's select! finds the USB task's JoinHandle ready: start returns
\* Ok(()), main returns and the monitor is dropped
StartReturns(d) ==
    /\ dpc[d] = "run"
    /\ mainAt[d] = "select"
    /\ usbTask[d] = "ended"
    /\ sockFile' = DropMonitor(sockFile)
    /\ ProcessExit(d, "usb")
    /\ UNCHANGED <<daemonMode, usbTask, probe, pidFile>>
    /\ PipelineUnchanged

\* read_events_blocking fails: monitor_events returns Err, the filesystem
\* branch logs it and completes the select! the same way
MonitorEventsFails(d) ==
    /\ dpc[d] = "run"
    /\ mainAt[d] = "read"
    /\ sockFile' = DropMonitor(sockFile)
    /\ ProcessExit(d, "fs")
    /\ UNCHANGED <<daemonMode, usbTask, probe, pidFile>>
    /\ PipelineUnchanged

\* SIGINT or SIGTERM is delivered to a process whose handlers are installed
DeliverSignal(d) ==
    /\ dpc[d] \in {"start", "run"}
    /\ \E sig \in Signals \ sigs[d] : sigs' = [sigs EXCEPT ![d] = @ \cup {sig}]
    /\ UNCHANGED <<dpc, daemonMode, listening, mainAt, usbTask, exitWhy, probe,
                   sockFile, pidFile>>
    /\ PipelineUnchanged

\* main's select! is polled and a signal stream is ready: cleanup_on_exit,
\* then main returns
SignalShutdown(d) ==
    /\ \/ dpc[d] = "start"
       \/ dpc[d] = "run" /\ mainAt[d] = "select"
    /\ \E sig \in sigs[d] :
          /\ sockFile' = CleanupSocket(sockFile)
          /\ pidFile' = CleanupPid(pidFile, daemonMode[d])
          /\ ProcessExit(d, sig)
    /\ UNCHANGED <<daemonMode, usbTask, probe>>
    /\ PipelineUnchanged


\* ------------------------------------------------------------ watch setup
\* watches per configuration
MaxWatches == 2

\* what a path handed to setup_single_watch meets: it does not exist, the
\* kernel refuses inotify_add_watch (no permission, watch limit), or it is added
PathFates == {"missing", "refused", "ok"}

\* a [[watches]] entry and the paths it stands for: its own path, the matches
\* of its glob pattern, or the devices auto-discovery finds
WatchConfigs ==
    {[enabled |-> FALSE, mode |-> "single", found |-> <<"ok">>]}
    \cup {[enabled |-> TRUE, mode |-> "single", found |-> <<f>>] : f \in PathFates}
    \cup {[enabled |-> TRUE, mode |-> "pattern", found |-> fs] :
            fs \in {<<>>, <<"ok">>, <<"refused", "ok">>, <<"ok", "refused">>}}
    \cup {[enabled |-> TRUE, mode |-> "auto", found |-> fs] :
            fs \in {<<>>, <<"ok", "ok">>, <<"missing", "ok">>}}

\* setup_single_watch
SetupSingleWatch(fate) ==
    CASE fate = "missing" -> "skipped"
      [] fate = "refused" -> "error"
      [] fate = "ok" -> "added"

\* the calls of setup_single_watch for watch i from its k-th path on, each
\* followed by `?`: the first error ends the setup
RECURSIVE SetupPaths(_, _, _)
SetupPaths(found, i, k) ==
    IF k > Len(found) THEN [ok |-> TRUE, added |-> {}]
    ELSE IF SetupSingleWatch(found[k]) = "error" THEN [ok |-> FALSE, added |-> {}]
    ELSE LET rest == SetupPaths(found, i, k + 1) IN
         [ok |-> rest.ok,
          added |-> rest.added \cup
                    (IF SetupSingleWatch(found[k]) = "added" THEN {<<i, k>>} ELSE {})]

CoreUnchanged ==
    UNCHANGED <<busVars, connVars, trigVars, created, gateVars, classVars, lifeVars>>

\* SecurityMonitor::new: Inotify::init, whose failure main returns
MonitorNew ==
    /\ wpc = "new"
    /\ \E inotify_ok \in BOOLEAN :
          wpc' = IF inotify_ok THEN "setup" ELSE "init_failed"
    /\ UNCHANGED <<watches, wi, watched_paths>>
    /\ CoreUnchanged
    /\ UNCHANGED <<netVars, sevVars, usbVars, idsVars, cliVars, chanVars, ctlVars, detVars, dflVars, ntfVars>>

\* setup_watches: one pass of the loop over config.watches
SetupWatches ==
    /\ wpc = "setup"
    /\ wi <= Len(watches)
    /\ LET w == watches[wi]
           r == IF w.enabled THEN SetupPaths(w.found, wi, 1)
                ELSE [ok |-> TRUE, added |-> {}]
       IN
       /\ watched_paths' = watched_paths \cup r.added
       /\ wpc' = IF r.ok THEN "setup" ELSE "watch_failed"
       /\ wi' = IF r.ok THEN wi + 1 ELSE wi
    /\ UNCHANGED watches
    /\ CoreUnchanged
    /\ UNCHANGED <<netVars, sevVars, usbVars, idsVars, cliVars, chanVars, ctlVars, detVars, dflVars, ntfVars>>

\* start: setup_watches returned Ok, the socket is next
StartAfterWatches ==
    /\ wpc = "setup"
    /\ wi > Len(watches)
    /\ wpc' = "started"
    /\ UNCHANGED <<watches, wi, watched_paths>>
    /\ CoreUnchanged
    /\ UNCHANGED <<netVars, sevVars, usbVars, idsVars, cliVars, chanVars, ctlVars, detVars, dflVars, ntfVars>>

\* ------------------------------------------------------- remote addresses
\* std::net::IpAddr: an IPv4 address is its four octets, an IPv6 address its
\* eight segments
Ip4(a, b, c, d) == [v |-> 4, o |-> <<a, b, c, d>>]
Ip6(segs) == [v |-> 6, o |-> segs]

Ipv4IsLoopback(o) == o[1] = 127

Ipv4IsPrivate(o) ==
    \/ o[1] = 10
    \/ o[1] = 172 /\ o[2] >= 16 /\ o[2] <= 31
    \/ o[1] = 192 /\ o[2] = 168

Ipv6IsLoopback(o) == o = <<0, 0, 0, 0, 0, 0, 0, 1>>

\* IpAddr::is_loopback
IsLoopback(ip) == IF ip.v = 4 THEN Ipv4IsLoopback(ip.o) ELSE Ipv6IsLoopback(ip.o)

\* SocketAddr::to_string: "a.b.c.d:port" or "[segments]:port"
AddrToString(addr) ==
    [bracketed |-> addr.ip.v = 6, host |-> addr.ip.o, port |-> addr.port]

\* str::parse::<SocketAddr>
ParseSocketAddr(s) ==
    IF s.bracketed /\ Len(s.host) = 8
    THEN [ok |-> TRUE, ip |-> Ip6(s.host), port |-> s.port]
    ELSE IF ~s.bracketed /\ Len(s.host) = 4
    THEN [ok |-> TRUE, ip |-> [v |-> 4, o |-> s.host], port |-> s.port]
    ELSE [ok |-> FALSE, ip |-> Ip6(<<>>), port |-> 0]

\* a classification that looks at the port before the address
ClassifyConnectionSeverityPortFirst(remote_addr) ==
    LET a == ParseSocketAddr(remote_addr) IN
    IF ~a.ok THEN "Low"
    ELSE IF IsLoopback(a.ip) THEN "Low"
    ELSE IF a.port = 22 THEN "High"
    ELSE IF a.port = 443 \/ a.port = 80 THEN "Low"
    ELSE IF a.port = 21 \/ a.port = 23 THEN "High"
    ELSE IF a.port = 3389 THEN "High"
    ELSE IF a.ip.v = 4 /\ Ipv4IsPrivate(a.ip.o) THEN "Medium"
    ELSE IF a.port < 1024 THEN "Medium"
    ELSE "Low"

\* classify_connection_severity
ClassifyConnectionSeverity(remote_addr) ==
    LET a == ParseSocketAddr(remote_addr) IN
    IF ~a.ok THEN "Low"
    ELSE IF IsLoopback(a.ip) THEN "Low"
    ELSE IF a.ip.v = 4 /\ Ipv4IsPrivate(a.ip.o) THEN "Medium"
    ELSE IF a.ip.v = 6 /\ Ipv6IsLoopback(a.ip.o) THEN "Low"
    ELSE IF a.port = 22 THEN "High"
    ELSE IF a.port = 443 \/ a.port = 80 THEN "Low"
    ELSE IF a.port = 21 \/ a.port = 23 THEN "High"
    ELSE IF a.port = 3389 THEN "High"
    ELSE IF a.port < 1024 THEN "Medium"
    ELSE "Low"

\* addresses and ports classify_connection_severity is applied to
SampleIps ==
    {Ip4(127, 0, 0, 1), Ip4(127, 8, 0, 1), Ip4(10, 0, 0, 5), Ip4(172, 15, 0, 1),
     Ip4(172, 16, 0, 1), Ip4(172, 31, 255, 254), Ip4(172, 32, 0, 1),
     Ip4(192, 168, 1, 1), Ip4(192, 169, 1, 1), Ip4(8, 8, 8, 8), Ip4(100, 64, 0, 1),
     Ip6(<<0, 0, 0, 0, 0, 0, 0, 1>>), Ip6(<<8193, 3512, 0, 0, 0, 0, 0, 1>>),
     Ip6(<<0, 0, 0, 0, 0, 65535, 32512, 1>>)}

SamplePorts == {0, 21, 22, 23, 25, 80, 443, 1023, 1024, 3389, 8080}

AddrInputs == {[ip |-> i, port |-> p] : i \in SampleIps, p \in SamplePorts}

NoAddr == [ip |-> [v |-> 0, o |-> <<>>], port |-> 0]

\* emit_network_event: the severity of the entry's remote address
ClassifyConnection ==
    /\ sout = "none"
    /\ sin # NoAddr
    /\ sout' = ClassifyConnectionSeverity(AddrToString(sin))
    /\ sin' = sin
    /\ CoreUnchanged
    /\ UNCHANGED <<watchVars, netVars, usbVars, idsVars, cliVars, chanVars, ctlVars, detVars, dflVars, ntfVars>>

\* --------------------------------------------------------- network poller
\* entries in the TCP tables at one moment
MaxEntries == 2

\* remote endpoints that appear in the tables
Endpoints ==
    {[ip |-> Ip4(127, 0, 0, 1), port |-> 5432],
     [ip |-> Ip4(203, 0, 113, 7), port |-> 22],
     [ip |-> Ip4(10, 0, 0, 5), port |-> 443]}

\* /proc/net/tcp followed by /proc/net/tcp6, one remote endpoint per entry;
\* two entries may have the same remote endpoint
Tables == UNION {[1..n -> Endpoints] : n \in 0..MaxEntries}

Range(t) == {t[k] : k \in 1..Len(t)}

\* the ring after the events es were sent from position t on
RECURSIVE SlotsAfter(_, _, _)
SlotsAfter(s, t, es) ==
    IF es = <<>> THEN s
    ELSE SlotsAfter([s EXCEPT ![SlotIdx(t)] = [pos |-> t, val |-> Head(es)]],
                    t + 1, Tail(es))

\* Sender::send for each of es in turn
SendAll(es) ==
    IF SendOk
    THEN /\ slots' = SlotsAfter(slots, tail, es)
         /\ tail' = tail + Len(es)
         /\ published' = published \o es
    ELSE UNCHANGED busVars

\* the kernel's tables change
TcpChange ==
    /\ \E t \in Tables : tcp' = t
    /\ tcp' # tcp
    /\ stayed' = stayed \cap Range(tcp')
    /\ UNCHANGED <<npc, known_connections, netlog>>
    /\ CoreUnchanged
    /\ UNCHANGED <<watchVars, sevVars, usbVars, idsVars, cliVars, chanVars, ctlVars, detVars, dflVars, ntfVars>>

\* a poller that starts with nothing known
InitialKnownNone(t) == {}

\* what initialize_known_connections inserts
InitialKnown(t) == Range(t)

\* start_monitoring up to its loop: initialize_known_connections
InitializeKnownConnections ==
    /\ npc = "init"
    /\ known_connections' = InitialKnown(tcp)
    /\ stayed' = Range(tcp)
    /\ npc' = "loop"
    /\ UNCHANGED <<tcp, netlog>>
    /\ CoreUnchanged
    /\ UNCHANGED <<watchVars, sevVars, usbVars, idsVars, cliVars, chanVars, ctlVars, detVars, dflVars, ntfVars>>

\* the entries of the tables that check_new_connections emits an event for
NewEntries(t, known) ==
    SelectSeq(t, LAMBDA a : a \notin known /\ ~IsLoopback(a.ip))

\* a poller that never forgets an endpoint
KnownAfterKeep(known, t) == known \cup Range(t)

\* known_connections = current_connections
KnownAfter(known, t) == Range(t)

\* one tick of start_monitoring's loop: check_new_connections
CheckNewConnections ==
    /\ npc = "loop"
    /\ LET new == NewEntries(tcp, known_connections)
           evs == [k \in 1..Len(new) |->
                     [id |-> created + k, src |-> "net", type |-> "NetworkConnection",
                      sev |-> ClassifyConnectionSeverity(AddrToString(new[k])),
                      ts |-> now]]
       IN
       /\ created + Len(new) <= MaxEvents
       /\ SendAll(evs)
       /\ created' = created + Len(new)
       /\ netlog' = netlog \o [k \in 1..Len(new) |->
                                 [remote |-> new[k], sev |-> evs[k].sev,
                                  id |-> evs[k].id]]
       /\ known_connections' = KnownAfter(known_connections, tcp)
    /\ TrackBehind
    /\ UNCHANGED <<npc, tcp, stayed>>
    /\ UNCHANGED <<cl, hc, rxnext, written, sockIn, subAt, lagged>>
    /\ UNCHANGED trigVars
    /\ UNCHANGED <<gateVars, classVars, lifeVars>>
    /\ UNCHANGED <<watchVars, sevVars, usbVars, idsVars, cliVars, chanVars, ctlVars, detVars, dflVars, ntfVars>>

\* ------------------------------------------------ network_ids.rs tracking
\* port_scan_threshold (10 by default), scaled down
ScanThreshold == 2
\* scan_window_seconds (60 by default), scaled down
ScanWindow == 2
\* the 300 seconds after which cleanup_old_connections drops a tracker,
\* scaled down
TrackerTimeout == 5

\* remote addresses in the connection table, and the local ports they reach
ScanSources == {Ip4(203, 0, 113, 7), Ip4(127, 0, 0, 1)}
LocalPorts == {22, 80, 443}

\* the lines of /proc/net/tcp at one poll: remote address and local port
TableLines == {[src |-> s, port |-> p] : s \in ScanSources, p \in LocalPorts}
LineTables == UNION {[1..n -> TableLines] : n \in 0..MaxEntries}

\* is_discovery_pattern_ports
DiscoveryPorts == {21, 22, 23, 25, 53, 80, 110, 143, 443, 993, 995}
IsDiscoveryPatternPorts(ports) == Cardinality(ports \cap DiscoveryPorts) >= 3

\* the tracker of a source after one more connection to port p at instant t
Tracked(tr, line, t) ==
    LET old == IF line.src \in DOMAIN tr THEN tr[line.src]
               ELSE [target_ports |-> {}, first_seen |-> t, last_seen |-> t]
    IN [target_ports |-> old.target_ports \cup {line.port},
        first_seen |-> old.first_seen,
        last_seen |-> t]

\* track_connection: the trackers afterwards and the alerts generated
TrackConnection(tr, line, t) ==
    IF IsLoopback(line.src) THEN [tracker |-> tr, out |-> <<>>]
    ELSE LET new == Tracked(tr, line, t)
             should_alert_scan ==
                 /\ Cardinality(new.target_ports) >= ScanThreshold
                 /\ t - new.first_seen <= ScanWindow
             should_alert_discovery == IsDiscoveryPatternPorts(new.target_ports)
         IN [tracker |-> [s \in DOMAIN tr \cup {line.src} |->
                             IF s = line.src THEN new ELSE tr[s]],
             out |-> (IF should_alert_scan
                      THEN <<[type |-> "PortScanDetected", sev |-> "High",
                              source_ip |-> line.src,
                              ports_scanned |-> Cardinality(new.target_ports)]>>
                      ELSE <<>>)
                     \o
                     (IF should_alert_discovery
                      THEN <<[type |-> "NetworkDiscovery", sev |-> "Medium",
                              source_ip |-> line.src,
                              ports_scanned |-> Cardinality(new.target_ports)]>>
                      ELSE <<>>)]

\* monitor_tcp_connections: track_connection for each line in turn
RECURSIVE TrackAll(_, _, _)
TrackAll(tr, lines, t) ==
    IF lines = <<>> THEN [tracker |-> tr, out |-> <<>>]
    ELSE LET one  == TrackConnection(tr, Head(lines), t)
             rest == TrackAll(one.tracker, Tail(lines), t)
         IN [tracker |-> rest.tracker, out |-> one.out \o rest.out]

\* cleanup_old_connections
CleanupOldConnections(tr, t) ==
    LET keep == {s \in DOMAIN tr : t - tr[s].last_seen < TrackerTimeout} IN
    [s \in keep |-> tr[s]]

\* history only: when each port was last reached from a remote source, as
\* far as the scan window looks back. track_connection returns at once for a
\* loopback address: such a line is no observation.
Observed(old, lines, t) ==
    LET here == {[src |-> lines[k].src, port |-> lines[k].port] :
                    k \in {j \in 1..Len(lines) : ~IsLoopback(lines[j].src)}}
        kept == {o \in DOMAIN old : t - old[o] <= ScanWindow}
    IN [o \in kept \cup here |-> IF o \in here THEN t ELSE old[o]]

\* check_network_connections: one poll of the connection table
CheckNetworkConnections ==
    \E lines \in LineTables :
        LET r   == TrackAll(connection_tracker, lines, now)
            evs == [k \in 1..Len(r.out) |->
                      [id |-> created + k, src |-> "ids", type |-> r.out[k].type,
                       sev |-> r.out[k].sev, ts |-> now]]
            scans == SelectSeq(r.out, LAMBDA a : a.type = "PortScanDetected")
        IN
        /\ created + Len(r.out) <= Capacity
        /\ SendAll(evs)
        /\ created' = created + Len(r.out)
        /\ connection_tracker' = CleanupOldConnections(r.tracker, now)
        /\ seen' = Observed(seen, lines, now)
        /\ alerts' = alerts \o scans
    /\ TrackBehind
    /\ UNCHANGED <<cl, hc, rxnext, written, sockIn, subAt, lagged>>
    /\ UNCHANGED trigVars
    /\ UNCHANGED <<gateVars, classVars, lifeVars>>
    /\ UNCHANGED <<watchVars, netVars, sevVars, usbVars, cliVars, chanVars, ctlVars, detVars, dflVars, ntfVars>>

\* ------------------------------------------------------ the client program
\* the variants of the client's EventType
ClientEventTypes ==
    {"FileAccess", "FileModify", "FileCreate", "FileDelete", "DirectoryAccess",
     "CameraAccess", "SshAccess", "MicrophoneAccess", "NetworkConnection",
     "UsbDeviceInserted"}

\* serde_json::from_str::<SecurityEvent> on a line the daemon wrote
ParseEvent(line) ==
    IF line.type \in ClientEventTypes
    THEN [ok |-> TRUE, event |-> line]
    ELSE [ok |-> FALSE, event |-> NoEvent]

\* a filter that lets the instant of the connection through
ListenSkipsBefore(timestamp, connection_time) == timestamp < connection_time

\* listen_events: `if event.timestamp <= connection_time { continue; }`
ListenSkips(timestamp, connection_time) == timestamp <= connection_time

\* monitor_events of the client: connect() has returned, the read loop begins
ClientMonitor(c) ==
    /\ cl[c] = "open"
    /\ cmode[c] = "none"
    /\ cmode' = [cmode EXCEPT ![c] = "monitor"]
    /\ UNCHANGED <<connAt, connTime, rd, shown>>
    /\ CoreUnchanged
    /\ UNCHANGED <<watchVars, netVars, sevVars, usbVars, idsVars, chanVars, ctlVars, detVars, dflVars, ntfVars>>

\* listen_events: connect() has returned, connection_time is taken
ClientListen(c) ==
    /\ cl[c] = "open"
    /\ cmode[c] = "none"
    /\ cmode' = [cmode EXCEPT ![c] = "listen"]
    /\ connTime' = [connTime EXCEPT ![c] = now]
    /\ UNCHANGED <<connAt, rd, shown>>
    /\ CoreUnchanged
    /\ UNCHANGED <<watchVars, netVars, sevVars, usbVars, idsVars, chanVars, ctlVars, detVars, dflVars, ntfVars>>

\* one turn of the client's read loop: read a line, parse it, display it
\* unless listen mode skips it (no --severity filter is given)
ClientReadLine(c) ==
    /\ cl[c] = "open"
    /\ cmode[c] # "none"
    /\ rd[c] < Len(written[c])
    /\ LET p == ParseEvent(written[c][rd[c] + 1]) IN
       /\ rd' = [rd EXCEPT ![c] = @ + 1]
       /\ shown' = [shown EXCEPT ![c] =
                       IF ~p.ok THEN @
                       ELSE IF cmode[c] = "listen"
                               /\ ListenSkips(p.event.ts, connTime[c]) THEN @
                       ELSE Append(@, p.event)]
    /\ UNCHANGED <<connAt, cmode, connTime>>
    /\ CoreUnchanged
    /\ UNCHANGED <<watchVars, netVars, sevVars, usbVars, idsVars, chanVars, ctlVars, detVars, dflVars, ntfVars>>

\* ------------------------------------------------- the client's daemon commands
\* no daemon command has been run
NoCheck == [cmd |-> "none", k |-> 0, pid |-> "absent"]

\* daemon_status, the PID file: a file naming a dead process is removed
StatusPid(f) == IF f = "absent" \/ PidAlive(f) THEN f ELSE "absent"

\* daemon_status
DaemonStatus ==
    /\ chk.cmd # "stopping"
    /\ chk' = [cmd |-> "status", k |-> 1 - chk.k, pid |-> "absent"]
    /\ pidFile' = StatusPid(pidFile)
    /\ UNCHANGED <<dpc, daemonMode, listening, mainAt, usbTask, sigs, exitWhy,
                   probe, sockFile>>
    /\ UNCHANGED <<busVars, connVars, trigVars, created>>
    /\ UNCHANGED <<gateVars, classVars>>
    /\ UNCHANGED <<watchVars, netVars, sevVars, usbVars, idsVars, cliVars, chanVars, detVars, dflVars, ntfVars>>

\* daemon_stop up to its wait loop: read_daemon_pid, then kill(pid, SIGTERM).
\* Without a PID file, or when kill fails because the process is gone, the
\* command is over; a process whose handlers are not installed yet dies of
\* the signal
DaemonStop ==
    /\ chk.cmd # "stopping"
    /\ IF pidFile = "absent" \/ ~PidAlive(pidFile)
       THEN /\ chk' = [cmd |-> "stop", k |-> 1 - chk.k, pid |-> "absent"]
            /\ UNCHANGED <<dpc, listening, mainAt, sigs, exitWhy>>
       ELSE /\ chk' = [cmd |-> "stopping", k |-> chk.k, pid |-> pidFile]
            /\ IF dpc[pidFile] \in {"start", "run"}
               THEN /\ sigs' = [sigs EXCEPT ![pidFile] = @ \cup {"SIGTERM"}]
                    /\ UNCHANGED <<dpc, listening, mainAt, exitWhy>>
               ELSE ProcessExit(pidFile, "killed")
    /\ UNCHANGED <<daemonMode, usbTask, probe, sockFile, pidFile>>
    /\ UNCHANGED <<busVars, connVars, trigVars, created>>
    /\ UNCHANGED <<gateVars, classVars>>
    /\ UNCHANGED <<watchVars, netVars, sevVars, usbVars, idsVars, cliVars, chanVars, detVars, dflVars, ntfVars>>

\* daemon_stop, the end of its wait loop: is_daemon_running() is false and
\* the command reports success, or after 3 s a process that is still inside
\* its blocking read is sent SIGKILL
DaemonStopEnds ==
    /\ chk.cmd = "stopping"
    /\ chk' = [cmd |-> "stop", k |-> 1 - chk.k, pid |-> "absent"]
    /\ IF pidFile = "absent" \/ ~PidAlive(pidFile)
       THEN UNCHANGED <<dpc, listening, mainAt, sigs, exitWhy>>
       ELSE /\ PidAlive(chk.pid)
            /\ dpc[chk.pid] = "run" /\ mainAt[chk.pid] = "read"
            /\ ProcessExit(chk.pid, "SIGKILL")
    /\ UNCHANGED <<daemonMode, usbTask, probe, sockFile, pidFile>>
    /\ UNCHANGED <<busVars, connVars, trigVars, created>>
    /\ UNCHANGED <<gateVars, classVars>>
    /\ UNCHANGED <<watchVars, netVars, sevVars, usbVars, idsVars, cliVars, chanVars, detVars, dflVars, ntfVars>>

\* ---------------------------------------------------------- event details
\* a text is the sequence of its pieces; the empty text is <<>>
\* classify_event, the description: a literal followed by the full path
ClassifyDescription(base, full, mask) ==
    LET r == ClassifyEvent(base, full, mask)
        literal ==
            CASE r.type = "CameraAccess" -> "Camera device access detected: "
              [] r.type = "MicrophoneAccess" -> "Microphone/audio device access detected: "
              [] r.type = "SshAccess" -> "SSH-related file access: "
              [] r.type = "FileCreate" -> "File created: "
              [] r.type = "FileDelete" -> "File deleted: "
              [] r.type = "FileModify" -> "File modified: "
              [] OTHER -> IF MaskContains(mask, "ACCESS") \/ MaskContains(mask, "OPEN")
                          THEN "File accessed: " ELSE "File system event: "
    IN  <<literal>> \o full

\* Display of a SocketAddr
AddrText(addr) ==
    IF addr.ip.v = 4 THEN <<"a.b.c.d", ":", "port">> ELSE <<"[", "segments", "]", ":", "port">>

\* emit_network_event, the description
NetworkDescription(protocol, addr) ==
    <<"New ", protocol, " connection to ">> \o AddrText(addr)

\* metadata.get(key).unwrap_or(&"unknown".to_string())
UnwrapOrUnknown(v) == IF v = Absent THEN <<"unknown">> ELSE v

\* a description made of the device's own texts only
UsbInsertionDescriptionBare(dev) ==
    dev.vendor \o dev.product \o dev.vendor_id \o dev.product_id

\* emit_usb_insertion_event, the description
UsbInsertionDescription(dev) ==
    IF dev.vendor # Absent /\ dev.product # Absent
    THEN <<"USB device inserted: ">> \o dev.vendor \o <<" ">> \o dev.product
         \o <<" (">> \o UnwrapOrUnknown(dev.vendor_id) \o <<":">>
         \o UnwrapOrUnknown(dev.product_id) \o <<")">>
    ELSE <<"USB device inserted: ">> \o UnwrapOrUnknown(dev.vendor_id) \o <<":">>
         \o UnwrapOrUnknown(dev.product_id)

\* emit_usb_removal_event, the description
UsbRemovalDescription == <<"USB device removed">>

\* what each producer is handed when it builds an event
DetailInputs ==
    {[producer |-> "fs", arg |-> i] : i \in ClassifierInputs}
    \cup {[producer |-> "net", arg |-> [protocol |-> p, addr |-> a]] :
            p \in {"TCP", "TCP6"}, a \in AddrInputs}
    \cup {[producer |-> "usb", arg |-> ev] : ev \in UsbEvents}

NoDetailInput == [producer |-> "none", arg |-> <<>>]
NoDetails == [sent |-> FALSE, severity |-> "none", description |-> <<>>]

\* the EventDetails of the event the producer sends for its input, if any
EventDetails(in) ==
    CASE in.producer = "fs" ->
           LET full == FullPath(in.arg.base, in.arg.name) IN
           [sent |-> TRUE,
            severity |-> ClassifyEvent(in.arg.base, full, in.arg.mask).sev,
            description |-> ClassifyDescription(in.arg.base, full, in.arg.mask)]
      [] in.producer = "net" ->
           [sent |-> TRUE,
            severity |-> ClassifyConnectionSeverity(AddrToString(in.arg.addr)),
            description |-> NetworkDescription(in.arg.protocol, in.arg.addr)]
      [] in.producer = "usb" /\ in.arg.action = "Add" ->
           [sent |-> TRUE,
            severity |-> ClassifyUsbDeviceSeverity(in.arg.dev),
            description |-> UsbInsertionDescription(in.arg.dev)]
      [] in.producer = "usb" /\ in.arg.action = "Remove" ->
           [sent |-> TRUE, severity |-> "Low", description |-> UsbRemovalDescription]
      [] OTHER -> NoDetails

\* create_security_event, emit_network_event, emit_usb_insertion_event and
\* emit_usb_removal_event: the details of the event that is sent
BuildDetails ==
    /\ din # NoDetailInput
    /\ dout = NoDetails
    /\ dout' = EventDetails(din)
    /\ dout' # dout
    /\ din' = din
    /\ CoreUnchanged
    /\ UNCHANGED <<watchVars, netVars, sevVars, usbVars, idsVars, cliVars, chanVars, ctlVars, dflVars, ntfVars>>

\* ------------------------------------------------- the default configuration
\* the triggers of Config::default
DefaultTriggers == <<
    [name |-> "Camera Access Alert", enabled |-> TRUE,
     event_types |-> {"CameraAccess"},
     min_severity |-> "High", run_async |-> TRUE, cooldown_seconds |-> 5],
    [name |-> "SSH Access Alert", enabled |-> TRUE,
     event_types |-> {"SshAccess"},
     min_severity |-> "Critical", run_async |-> TRUE, cooldown_seconds |-> 10],
    [name |-> "Port Scan Alert", enabled |-> TRUE,
     event_types |-> {"PortScanDetected"},
     min_severity |-> "High", run_async |-> TRUE, cooldown_seconds |-> 30],
    [name |-> "Network Discovery Alert", enabled |-> TRUE,
     event_types |-> {"NetworkDiscovery"},
     min_severity |-> "Medium", run_async |-> TRUE, cooldown_seconds |-> 60] >>

\* the kinds of event monitor_events hands to process_event_triggers: what
\* create_security_event makes of the inotify events
HandedKinds ==
    {ClassifyEvent(i.base, FullPath(i.base, i.name), i.mask) : i \in ClassifierInputs}

\* the default rules that accept an event of kind k when no cooldown runs
Accepting(k) ==
    {DefaultTriggers[j].name : j \in
        {i \in 1..Len(DefaultTriggers) :
            RuleVerdict(DefaultTriggers[i], k, [n \in {} |-> 0], 0) = "accept"}}

\* monitor_events with the default rules: an event of a kind not seen before
\* is handed to process_event_triggers
HandEvent ==
    /\ \E k \in HandedKinds \ handed :
          /\ handed' = handed \cup {k}
          /\ fired' = fired \cup Accepting(k)
    /\ CoreUnchanged
    /\ UNCHANGED <<watchVars, netVars, sevVars, usbVars, idsVars, cliVars, chanVars, ctlVars, detVars, ntfVars>>

\* ------------------------------------------- the client's notification limits
\* Seconds are scaled by 30: the rate window and the cooldown of camera and
\* microphone alerts are 60 s, the cooldown of other alerts 30 s, entries are
\* cleaned up after 300 s; the limit of 5 notifications is scaled to 2.
NotifyMax == 2
NotifyWindow == 2
DeviceCooldown == 2
OtherCooldown == 1
CleanupAge == 5

\* the (event_type, path) pairs of the alerts send_alert is called with
AlertKeys ==
    {[type |-> "CameraAccess", path |-> "/dev/video0"],
     [type |-> "MicrophoneAccess", path |-> "/dev/snd/pcmC0D0c"],
     [type |-> "SshAccess", path |-> "/root/.ssh/authorized_keys"]}

\* should_send_notification, the cooldown of a key
CooldownDuration(key) ==
    IF key.type \in {"MicrophoneAccess", "CameraAccess"}
    THEN DeviceCooldown ELSE OtherCooldown

\* cooldowns.retain(|_, last_time| now - last_time < 300 s)
RetainCooldowns(cd, t) ==
    [k \in {x \in DOMAIN cd : t - cd[x] < CleanupAge} |-> cd[k]]

\* rate_limiter.retain(|time| now - time < 60 s)
RetainRate(rl, t) == SelectSeq(rl, LAMBDA x : t - x < NotifyWindow)

\* a limit that lets one notification more through
RateLimitedAbove(n) == n > NotifyMax

\* `if rate_limiter.len() >= 5`
RateLimited(n) == n >= NotifyMax

\* should_send_notification for an alert of the given key at instant t:
\* the two maps afterwards and the value returned
ShouldSend(cd, rl, key, t) ==
    LET cd1 == RetainCooldowns(cd, t)
        cd2 == [k \in DOMAIN cd1 \cup {key} |-> IF k = key THEN t ELSE cd1[k]]
        rl1 == RetainRate(rl, t)
    IN  IF key \in DOMAIN cd1 /\ t - cd1[key] < CooldownDuration(key)
        THEN [cooldowns |-> cd1, rate_limiter |-> rl, result |-> FALSE]
        ELSE IF RateLimited(Len(rl1))
        THEN [cooldowns |-> cd2, rate_limiter |-> rl1, result |-> FALSE]
        ELSE [cooldowns |-> cd2, rate_limiter |-> Append(rl1, t), result |-> TRUE]

\* send_alert calls should_send_notification for one alert
ShouldSendNotification ==
    /\ \E key \in AlertKeys :
          LET r == ShouldSend(ncool, nrate, key, now) IN
          /\ ncool' = r.cooldowns
          /\ nrate' = r.rate_limiter
          /\ nsent' = IF r.result THEN nsent \cup {[key |-> key, at |-> now]} ELSE nsent
    /\ CoreUnchanged
    /\ UNCHANGED <<watchVars, netVars, sevVars, usbVars, idsVars, cliVars, chanVars, ctlVars, detVars, dflVars>>

\* ------------------------------------------------------------------ Init
InitPipeline ==
    /\ tail = 0
    /\ slots = [i \in 0..(BufLen - 1) |-> [pos |-> i - BufLen, val |-> NoEvent]]
    /\ published = <<>>
    /\ cl = [c \in Clients |-> "idle"]
    /\ hc = [c \in Clients |-> "none"]
    /\ rxnext = [c \in Clients |-> 0]
    /\ written = [c \in Clients |-> <<>>]
    /\ sockIn = [c \in Clients |-> <<>>]
    /\ subAt = [c \in Clients |-> 0]
    /\ lagged = [c \in Clients |-> 0]
    /\ maxBehind = [c \in Clients |-> 0]
    /\ now = 0
    /\ fpc = "read"
    /\ cur = NoEvent
    /\ ri = 0
    /\ cooldowns = [n \in {} |-> 0]
    /\ running = {}
    /\ evlog = {}
    /\ launches = <<>>
    /\ created = 0
    /\ gout = "none"
    /\ cout = NoRule

\* one process is up: it has bound the socket and its tasks run
InitRunning ==
    /\ dpc = [d \in Daemons |-> IF d = "d1" THEN "run" ELSE "off"]
    /\ daemonMode = [d \in Daemons |-> FALSE]
    /\ listening = [d \in Daemons |-> d = "d1"]
    /\ mainAt = [d \in Daemons |-> IF d = "d1" THEN "select" ELSE "none"]
    /\ usbTask = [d \in Daemons |-> IF d = "d1" THEN "running" ELSE "none"]
    /\ sigs = [d \in Daemons |-> {}]
    /\ exitWhy = [d \in Daemons |-> "none"]
    /\ probe = [d \in Daemons |-> IF d = "d1" THEN "absent" ELSE "none"]
    /\ sockFile = "d1"
    /\ pidFile = "absent"

\* no process has been started; the files may be left over from a dead one
InitBoot ==
    /\ dpc = [d \in Daemons |-> "off"]
    /\ daemonMode = [d \in Daemons |-> FALSE]
    /\ listening = [d \in Daemons |-> FALSE]
    /\ mainAt = [d \in Daemons |-> "none"]
    /\ usbTask = [d \in Daemons |-> "none"]
    /\ sigs = [d \in Daemons |-> {}]
    /\ exitWhy = [d \in Daemons |-> "none"]
    /\ probe = [d \in Daemons |-> "none"]
    /\ sockFile \in {"absent", Old}
    /\ pidFile \in {"absent", Old}

\* the parts of the program that a specification leaves out stay as they are
InitWatchOff ==
    /\ wpc = "started" /\ watches = <<>> /\ wi = 1 /\ watched_paths = {}

InitNetOff ==
    /\ npc = "loop" /\ tcp = <<>> /\ known_connections = {} /\ stayed = {}
    /\ netlog = <<>>

InitSevOff == sin = NoAddr /\ sout = "none"

InitUsbOff == usbIn = NoUsbEvent

InitIdsOff ==
    /\ connection_tracker = [s \in {} |-> 0]
    /\ seen = [o \in {} |-> 0]
    /\ alerts = <<>>

InitCliOff ==
    /\ connAt = [c \in Clients |-> 0]
    /\ cmode = [c \in Clients |-> "none"]
    /\ connTime = [c \in Clients |-> 0]
    /\ rd = [c \in Clients |-> 0]
    /\ shown = [c \in Clients |-> <<>>]

InitChanOff ==
    /\ closed = FALSE

InitCtlOff ==
    /\ chk = NoCheck

InitDetOff ==
    /\ din = NoDetailInput
    /\ dout = NoDetails

InitDflOff ==
    /\ handed = {}
    /\ fired = {}

InitNtfOff ==
    /\ ncool = [k \in {} |-> 0]
    /\ nrate = <<>>
    /\ nsent = {}

InitAux ==
    /\ InitWatchOff /\ InitNetOff /\ InitSevOff /\ InitUsbOff /\ InitIdsOff
    /\ InitCliOff
    /\ InitChanOff
    /\ InitCtlOff
    /\ InitDetOff
    /\ InitDflOff
    /\ InitNtfOff

Init == InitPipeline /\ gin = NoInput /\ cin = NoClassInput /\ InitRunning /\ InitAux

InitGate == InitPipeline /\ gin \in GateInputs /\ cin = NoClassInput /\ InitRunning /\ InitAux

InitClassify == InitPipeline /\ gin = NoInput /\ cin \in ClassifierInputs /\ InitRunning /\ InitAux

InitLife == InitPipeline /\ gin = NoInput /\ cin = NoClassInput /\ InitBoot /\ InitAux

\* the listener, the connections, the network poller and the USB monitor
Next ==
    \/ EmitNetworkEvent
    \/ \E c \in Clients : ClientConnect(c)
    \/ \E c \in Clients : ClientClose(c)
    \/ \E c \in Clients : HandleSocketConnections(c)
    \/ \E c \in Clients : HandleClient(c)

Spec == Init /\ [][Next]_vars

SpecGate == InitGate /\ [][ApplyRule]_vars

SpecClassify == InitClassify /\ [][CreateSecurityEvent]_vars

\* processes of the daemon's binary from their start to their exit
NextLife ==
    \E d \in Daemons :
        \/ Launch(d)
        \/ Daemonize(d)
        \/ LoadConfig(d)
        \/ Start(d)
        \/ MonitorEventsBlock(d)
        \/ InotifyEvent(d)
        \/ UsbMonitorFails(d)
        \/ StartReturns(d)
        \/ MonitorEventsFails(d)
        \/ DeliverSignal(d)
        \/ SignalShutdown(d)

SpecLife == InitLife /\ [][NextLife]_vars

\* every step of a process that depends on nothing outside it is taken in
\* the end; when the kernel has an inotify event, a USB failure or a signal
\* for it is not the process's to decide. select! starts each poll at a
\* branch chosen at random, so a signal branch that is ready at infinitely
\* many polls is taken at one of them.
LifeFairness ==
    \A d \in Daemons :
        /\ WF_vars(Daemonize(d)) /\ WF_vars(LoadConfig(d)) /\ WF_vars(Start(d))
        /\ WF_vars(MonitorEventsBlock(d))
        /\ WF_vars(StartReturns(d)) /\ SF_vars(SignalShutdown(d))

SpecLifeFair == InitLife /\ [][NextLife]_vars /\ LifeFairness

\* the same system with clients that also write lines towards the daemon
NextIngress ==
    \/ Next
    \/ \E c \in Clients : ClientWrite(c)

\* the runtime keeps scheduling the listener and every connection task
DaemonFairness ==
    /\ \A c \in Clients : WF_vars(HandleSocketConnections(c))
    /\ \A c \in Clients : WF_vars(HandleClient(c))

SpecIngress == Init /\ [][NextIngress]_vars /\ DaemonFairness

\* the inotify task with its trigger engine, and the clock
NextTrig ==
    \/ MonitorEventsRead
    \/ ProcessEventTriggers
    \/ ExecuteTrigger
    \/ CommandExit
    \/ MonitorEventsSend
    \/ Tick

SpecTrig == Init /\ [][NextTrig]_vars

\* the three producers side by side
NextSources ==
    \/ MonitorEventsRead
    \/ ProcessEventTriggers
    \/ ExecuteTrigger
    \/ CommandExit
    \/ MonitorEventsSend
    \/ EmitNetworkEvent
    \/ HandleUsbEvent

SpecSources == Init /\ [][NextSources]_vars

\* a monitor is constructed and installs the watches of its configuration
InitCore == InitPipeline /\ gin = NoInput /\ cin = NoClassInput /\ InitRunning

InitWatch ==
    /\ InitCore
    /\ InitNetOff /\ InitSevOff /\ InitUsbOff /\ InitIdsOff /\ InitCliOff
    /\ InitChanOff /\ InitCtlOff /\ InitDetOff /\ InitDflOff
    /\ InitNtfOff
    /\ wpc = "new" /\ wi = 1 /\ watched_paths = {}
    /\ watches \in [1..MaxWatches -> WatchConfigs]

NextWatch ==
    \/ MonitorNew
    \/ SetupWatches
    \/ StartAfterWatches

SpecWatch == InitWatch /\ [][NextWatch]_vars

\* the network poller from its start, over tables that change under it
InitNet ==
    /\ InitCore
    /\ InitWatchOff /\ InitSevOff /\ InitUsbOff /\ InitIdsOff /\ InitCliOff
    /\ InitChanOff /\ InitCtlOff /\ InitDetOff /\ InitDflOff
    /\ InitNtfOff
    /\ npc = "init" /\ tcp \in Tables /\ known_connections = {} /\ stayed = {}
    /\ netlog = <<>>

NextNet ==
    \/ InitializeKnownConnections
    \/ TcpChange
    \/ CheckNewConnections

SpecNet == InitNet /\ [][NextNet]_vars

InitSeverity ==
    /\ InitCore
    /\ InitWatchOff /\ InitNetOff /\ InitUsbOff /\ InitIdsOff /\ InitCliOff
    /\ InitChanOff /\ InitCtlOff /\ InitDetOff /\ InitDflOff
    /\ InitNtfOff
    /\ sin \in AddrInputs /\ sout = "none"

SpecSeverity == InitSeverity /\ [][ClassifyConnection]_vars

\* the USB monitor on its own
SpecUsb == Init /\ [][HandleUsbEvent]_vars

\* the connection tracking of network_ids.rs and the clock
NextIds ==
    \/ CheckNetworkConnections
    \/ Tick

SpecIds == Init /\ [][NextIds]_vars

\* the client that runs secmon-client monitor or listen
Viewers == {"c1"}

\* the network poller's events, the clock, and one client program from its
\* connect() on, with the daemon's side of its connection
NextClient ==
    \/ EmitNetworkEvent
    \/ Tick
    \/ \E c \in Viewers : ClientConnect(c)
    \/ \E c \in Viewers : HandleSocketConnections(c)
    \/ \E c \in Viewers : HandleClient(c)
    \/ \E c \in Viewers : ClientMonitor(c)
    \/ \E c \in Viewers : ClientListen(c)
    \/ \E c \in Viewers : ClientReadLine(c)

SpecClient == Init /\ [][NextClient]_vars

\* the bus and one connection up to and beyond the drop of the senders
NextClose ==
    \/ EmitNetworkEvent
    \/ \E c \in Viewers : ClientConnect(c)
    \/ \E c \in Viewers : ClientClose(c)
    \/ \E c \in Viewers : HandleSocketConnections(c)
    \/ \E c \in Viewers : HandleClient(c)
    \/ DropSenders

SpecClose == Init /\ [][NextClose]_vars

\* the daemon processes and the client's status and stop commands
NextCtl ==
    \/ NextLife
    \/ DaemonStatus
    \/ DaemonStop
    \/ DaemonStopEnds

SpecCtl == InitLife /\ [][NextCtl]_vars

\* every producer applied to each of its inputs
InitDetails ==
    /\ InitCore
    /\ InitWatchOff /\ InitNetOff /\ InitSevOff /\ InitUsbOff /\ InitIdsOff
    /\ InitCliOff /\ InitChanOff /\ InitCtlOff /\ InitDflOff /\ InitNtfOff
    /\ din \in DetailInputs
    /\ dout = NoDetails

SpecDetails == InitDetails /\ [][BuildDetails]_vars

\* the trigger engine with the default rules
SpecDefault == Init /\ [][HandEvent]_vars

\* alerts arriving at the client as time passes
NextNotify ==
    \/ ShouldSendNotification
    \/ Tick

SpecNotify == Init /\ [][NextNotify]_vars

\* ------------------------------------------------------------ properties
\* a recv() of connection c happens in this step
RecvStep(c) == hc[c] = "running" /\ rxnext'[c] # rxnext[c]

\* distance of connection c's cursor from the head of the channel
Behind(c) == tail - rxnext[c]

\* the oldest position the ring still holds
OldestHeld == CHOOSE p \in {slots[i].pos : i \in DOMAIN slots} :
                \A i \in DOMAIN slots : p <= slots[i].pos

\* everything published between c's subscription and c's cursor was written
NothingSkipped(c) ==
    /\ lagged[c] = 0
    /\ written[c] = SubSeq(published, subAt[c] + 1, rxnext[c])

RECURSIVE IsSubsequence(_, _)
IsSubsequence(w, p) ==
    IF w = <<>> THEN TRUE
    ELSE IF p = <<>> THEN FALSE
    ELSE IF Head(w) = Head(p) THEN IsSubsequence(Tail(w), Tail(p))
    ELSE IsSubsequence(w, Tail(p))

\* C1: a line a client wrote on its connection is eventually published on
\* the bus as an event (and from there reaches the other subscribers).
IngressRoundTrip ==
    \A c \in Clients :
        (sockIn[c] # <<>>) ~>
            (\E i \in 1..Len(published) : published[i].src = "ingress")

LaggedKeepsConnection ==
    [][\A c \in Clients :
          (RecvStep(c) /\ lagged'[c] # lagged[c]) =>
              /\ hc'[c] = "running"
              /\ written'[c] = written[c]
              /\ rxnext'[c] = OldestHeld
              /\ rxnext'[c] > rxnext[c]]_vars

LaggedKeepsConnectionWitness ==
    \E c \in Clients :
        /\ lagged[c] > 0 /\ hc[c] = "running" /\ subAt[c] = 0
        /\ written[c] # <<>> /\ written[c][1] = published[tail - BufLen + 1]

\* C6: what a connection has been written is a subsequence of what was
\* published, hence in publication order and without repetition.
PerSubscriberFifo ==
    \A c \in Clients : IsSubsequence(written[c], published)

PerSubscriberFifoWitness ==
    \E c \in Clients :
        /\ lagged[c] > 0 /\ Len(written[c]) >= 2 /\ subAt[c] < tail - BufLen - 1
        /\ written[c] # SubSeq(published, 1, Len(written[c]))

\* ---------------------------------------------------- trigger properties
RuleNames == {Triggers[j].name : j \in 1..Len(Triggers)}
RuleOf(n) == Triggers[CHOOSE j \in 1..Len(Triggers) : Triggers[j].name = n]

\* evaluations of rule n that passed the enabled, type and severity tests
Matching(n) == {r \in evlog : r.rule = n /\ r.res \in {"cooldown", "accept"}}

\* r2 is the matching evaluation of its rule that follows r1
Consecutive(r1, r2) ==
    /\ r1.rule = r2.rule /\ r1.ev < r2.ev
    /\ ~\E r \in Matching(r1.rule) : r1.ev < r.ev /\ r.ev < r2.ev

LaunchesOf(n) == SelectSeq(launches, LAMBDA l : l.rule = n)

\* the order Low < Medium < High < Critical, and the reading of a minimum
SeverityOrder == <<"Low", "Medium", "High", "Critical">>
Rank(sev) == CHOOSE i \in 1..4 : SeverityOrder[i] = sev
MinRank(min) == IF min \in Severities THEN Rank(min) ELSE Rank("Medium")

\* C2: every event on the bus has been evaluated against every enabled rule.
EveryEventEvaluated ==
    \A i \in 1..Len(published) :
        \A j \in 1..Len(Triggers) :
            Triggers[j].enabled =>
                \E r \in evlog : r.ev = published[i].id /\ r.rule = Triggers[j].name

\* C7: when a matching event follows one that launched the rule's command,
\* it launches the command again exactly if at least cooldown_seconds lie
\* between the two; and matching events at 0, 1 and 6 with a cooldown of 5
\* make two launches.
Cooldown ==
    /\ \A n \in RuleNames :
          \A r1, r2 \in Matching(n) :
              (r1.res = "accept" /\ Consecutive(r1, r2)) =>
                  ((r2.res = "accept") <=> (r2.at - r1.at >= RuleOf(n).cooldown_seconds))
    /\ \A n \in RuleNames :
          fpc \in {"read", "send"} =>
              Len(LaunchesOf(n)) = Cardinality({r \in Matching(n) : r.res = "accept"})
    /\ ( /\ fpc \in {"read", "send"}
         /\ {r.at : r \in Matching("cam")} = {0, 1, 6}
         /\ Cardinality(Matching("cam")) = 3 )
       => Len(LaunchesOf("cam")) = 2

CooldownWitness ==
    /\ fpc = "read"
    /\ RuleOf("cam").cooldown_seconds = 5
    /\ {r.at : r \in Matching("cam")} = {0, 1, 6}
    /\ Cardinality(Matching("cam")) = 3
    /\ Len(LaunchesOf("cam")) = 2

\* C8: when execute_trigger is about to run, the rule's cooldown entry is
\* already the present instant; every launch found it set; and two launches
\* of one rule are never less than cooldown_seconds apart, whether or not
\* the earlier command was still running when the later event was evaluated.
CooldownSetBeforeLaunch ==
    /\ fpc = "exec" =>
          /\ Triggers[ri].name \in DOMAIN cooldowns
          /\ cooldowns[Triggers[ri].name] = now
    /\ \A i \in 1..Len(launches) : launches[i].lf = launches[i].at
    /\ \A i, k \in 1..Len(launches) :
          (i < k /\ launches[i].rule = launches[k].rule) =>
              launches[k].at - launches[i].at >= RuleOf(launches[i].rule).cooldown_seconds
    /\ \A r \in evlog :
          (r.rule \in DOMAIN cooldowns /\ r.res = "accept" /\ r.ev = cur.id) =>
              cooldowns[r.rule] = r.at

CooldownSetBeforeLaunchWitness ==
    /\ \E r \in evlog : r.rule = "cam" /\ r.res = "cooldown" /\ r.busy
    /\ \E i \in 1..Len(launches) : launches[i].rule = "cam" /\ launches[i].ok

\* C9: a rule goes on to its cooldown test only for an event whose severity
\* is at least the rule's minimum in the order Low < Medium < High <
\* Critical, a minimum that is none of the four names counting as Medium;
\* an enabled rule listing the event's type stops at the severity test
\* exactly when the severity is below that minimum.
SeverityGating ==
    gout # "none" =>
        /\ gout \in {"accept", "cooldown"} => Rank(gin.sev) >= MinRank(gin.min_severity)
        /\ (gin.enabled /\ gin.type \in gin.event_types) =>
              ((gout = "severity") <=> (Rank(gin.sev) < MinRank(gin.min_severity)))

SeverityGatingWitness ==
    /\ gout = "accept"
    /\ gin.min_severity = "critical"
    /\ gin.sev = "Medium"

\* C10: every launch is by an enabled rule that lists the launching event's
\* type, and every entry of the cooldown map belongs to such a rule and was
\* written by an accepted evaluation of it.
OnlyEnabledMatchingRulesLaunch ==
    /\ \A i \in 1..Len(launches) :
          /\ RuleOf(launches[i].rule).enabled
          /\ launches[i].type \in RuleOf(launches[i].rule).event_types
    /\ \A n \in DOMAIN cooldowns :
          /\ RuleOf(n).enabled
          /\ \E r \in evlog : /\ r.rule = n /\ r.res = "accept" /\ r.at = cooldowns[n]
                              /\ r.type \in RuleOf(n).event_types
    /\ \A r \in evlog :
          (~RuleOf(r.rule).enabled \/ r.type \notin RuleOf(r.rule).event_types) =>
              r.res \in {"disabled", "type"}

OnlyEnabledMatchingRulesLaunchWitness ==
    /\ \E r \in evlog : r.rule = "off" /\ r.res = "disabled" /\ r.type = "CameraAccess"
    /\ \E r \in evlog : r.rule = "any" /\ r.res = "type" /\ r.type = "CameraAccess"
    /\ \E i \in 1..Len(launches) : launches[i].type = "CameraAccess"
    /\ "off" \notin DOMAIN cooldowns
    /\ fpc = "read"

\* the event with identifier id has left the engine: every rule has been
\* applied to it and it is on the bus
Completed(id) ==
    /\ {r.rule : r \in {q \in evlog : q.ev = id}} = RuleNames
    /\ \E k \in 1..Len(published) : published[k].id = id

\* C11: a trigger command that could not be spawned stops nothing: the task
\* never waits for it, the event it was for is afterwards applied to the
\* remaining rules and published, and an event that the task has moved on
\* from was completed whether or not one of its spawns failed.
SpawnFailureIsolated ==
    /\ fpc = "wait" => launches[Len(launches)].ok
    /\ \A i \in 1..Len(launches) :
          (~launches[i].ok /\ cur.id # launches[i].ev) => Completed(launches[i].ev)
    /\ \A id \in {r.ev : r \in evlog} \ {cur.id} : Completed(id)
    /\ fpc = "read" => cur = NoEvent

SpawnFailureIsolatedWitness ==
    \E i, k \in 1..Len(launches) :
        /\ i < k
        /\ ~launches[i].ok /\ launches[k].ok
        /\ launches[i].ev < launches[k].ev
        /\ Completed(launches[i].ev) /\ Completed(launches[k].ev)

\* ------------------------------------------------- classifier properties
\* the lowercased base and full path of the classified event
CBase == ToLowercase(cin.base)
CPath == ToLowercase(FullPath(cin.base, cin.name))

\* the rows of the classification table, as the specification words them
CameraRow ==
    \/ Contains(CBase, <<"video">>) \/ Contains(CBase, <<"camera">>)
    \/ Contains(CPath, <<"/", "dev", "/", "video">>)
MicrophoneRow ==
    \/ Contains(CBase, <<"snd">>)
    \/ \E w \in {<<"/", "dev", "/", "snd", "/">>, <<"pcm">>, <<"audio">>,
                  <<"alsa">>, <<"pulse">>} : Contains(CPath, w)
SshKeyRow == Contains(CPath, <<"authorized_keys">>) \/ Contains(CPath, <<"id_rsa">>)
SshRow == Contains(CBase, <<"ssh">>) \/ Contains(CPath, <<".", "ssh">>)

MaskTypes == {"FileCreate", "FileDelete", "FileModify", "FileAccess"}

\* the mask bits in the order in which they decide, with what they decide
MaskOrder ==
    << [bit |-> "CREATE", type |-> "FileCreate", sev |-> "Medium"],
       [bit |-> "DELETE", type |-> "FileDelete", sev |-> "Medium"],
       [bit |-> "MODIFY", type |-> "FileModify", sev |-> "Low"],
       [bit |-> "ACCESS", type |-> "FileAccess", sev |-> "Low"],
       [bit |-> "OPEN",   type |-> "FileAccess", sev |-> "Low"] >>

SshKeyIsCritical ==
    (cout # NoRule /\ SshKeyRow /\ ~CameraRow /\ ~MicrophoneRow)
        => cout = [type |-> "SshAccess", sev |-> "Critical"]

\* C14: an event that does not match the camera row is MicrophoneAccess/High
\* exactly when the base contains snd or the path contains /dev/snd/, pcm,
\* audio, alsa or pulse.
MicrophoneExactly ==
    (cout # NoRule /\ ~CameraRow)
        => ((cout = [type |-> "MicrophoneAccess", sev |-> "High"]) <=> MicrophoneRow)

\* C15: when no row of the table about paths applies, the first bit set in
\* the order CREATE, DELETE, MODIFY, ACCESS, OPEN decides, and a mask with
\* none of them is FileAccess/Low.
MaskDecidesInOrder ==
    (cout # NoRule /\ ~CameraRow /\ ~MicrophoneRow /\ ~SshKeyRow /\ ~SshRow) =>
        LET set == {i \in 1..Len(MaskOrder) : MaskOrder[i].bit \in cin.mask} IN
        IF set = {}
        THEN cout = [type |-> "FileAccess", sev |-> "Low"]
        ELSE LET first == CHOOSE i \in set : \A k \in set : i <= k IN
             cout = [type |-> MaskOrder[first].type, sev |-> MaskOrder[first].sev]

MaskDecidesInOrderWitness ==
    /\ cout = [type |-> "FileDelete", sev |-> "Medium"]
    /\ cin.mask = {"DELETE", "MODIFY", "OPEN", "ISDIR"}
    /\ cin.base = <<"/", "tmp">> /\ cin.name = <<"x">>

\* -------------------------------------------- start-up and shutdown properties
\* some process accepts on the inode the socket path names
PeerAccepts == \E e \in Daemons : sockFile = e /\ listening[e]

\* process d runs the probe of start() in this step
ProbeStep(d) == dpc[d] = "start" /\ probe'[d] # probe[d]

SocketFileIffListening ==
    /\ sockFile \in Daemons => listening[sockFile]
    /\ \A d \in Daemons : listening[d] => sockFile = d

\* C18: a process that has started shuts down only on SIGINT, SIGTERM or an
\* error of the pipeline (of start(), or of the inotify read), and the step
\* that ends it leaves no socket file and, in daemon mode, no PID file.
ShutdownOnlyOnSignalOrError ==
    [][\A d \in Daemons :
          (dpc[d] \in {"start", "run"} /\ dpc'[d] = "exited") =>
              /\ exitWhy'[d] \in Signals \cup {"error", "fs"}
              /\ sockFile' = "absent"
              /\ daemonMode[d] => pidFile' = "absent"]_vars

\* C19: a signal delivered to a running process leads to its shutdown.
SignalLeadsToShutdown ==
    \A d \in Daemons : (dpc[d] = "run" /\ sigs[d] # {}) ~> (dpc[d] = "exited")

\* C20: no process ends because its USB task ended.
UsbFailureTolerated ==
    \A d \in Daemons : usbTask[d] = "ended" => exitWhy[d] # "usb"

\* ----------------------------------------------------- producer properties
\* C21: a producer that holds an event never waits for a trigger command:
\* while monitor_events awaits the exit of a command, the event the command
\* was launched for is already on the bus.
PublishingNonBlocking ==
    fpc = "wait" => \E k \in 1..Len(published) : published[k].id = cur.id

\* ------------------------------------------------- watch setup properties
\* the paths of the configuration that exist and that the kernel accepts
Installable ==
    {<<i, k>> \in (1..Len(watches)) \X (1..2) :
        /\ watches[i].enabled
        /\ k <= Len(watches[i].found)
        /\ watches[i].found[k] = "ok"}

\* C22: no path that is missing or refused makes the start fail: start-up
\* fails only where Inotify::init failed, and a monitor that started has
\* installed every enabled watch whose path exists and is accepted.
WatchFailureNonFatal ==
    /\ wpc # "watch_failed"
    /\ wpc = "started" => watched_paths = Installable

\* ----------------------------------------------------- poller properties
\* endpoints of the events emitted in this step
EmittedNow == {netlog'[k].remote : k \in (Len(netlog) + 1)..Len(netlog')}

TickEmitsNewOnly ==
    [][(npc = "loop" /\ <<known_connections, netlog>>' # <<known_connections, netlog>>) =>
          /\ EmittedNow = {a \in Range(tcp) : a \notin known_connections /\ ~IsLoopback(a.ip)}
          /\ known_connections' = Range(tcp)
          /\ \A a \in Range(tcp) \cap known_connections : a \notin EmittedNow
          /\ \A a \in EmittedNow : ~IsLoopback(a.ip)
          /\ \A k \in 1..Len(netlog') : ~IsLoopback(netlog'[k].remote.ip)]_vars

TickEmitsNewOnlyWitness ==
    /\ Len(netlog) >= 3
    /\ netlog[1].remote = netlog[2].remote /\ netlog[2].remote = netlog[3].remote
    /\ \E a \in known_connections : IsLoopback(a.ip)
    /\ \E a \in known_connections : a = netlog[1].remote

\* the first sixteen bits of an IPv4 address, and the three RFC 1918 blocks
\* 10.0.0.0/8, 172.16.0.0/12 and 192.168.0.0/16
Prefix16(o) == o[1] * 256 + o[2]

Rfc1918(o) ==
    LET n == Prefix16(o) IN
    \/ Prefix16(<<10, 0>>) <= n /\ n <= Prefix16(<<10, 255>>)
    \/ Prefix16(<<172, 16>>) <= n /\ n <= Prefix16(<<172, 31>>)
    \/ n = Prefix16(<<192, 168>>)

\* the loopback addresses: 127.0.0.0/8 and ::1
LoopbackAddress(ip) ==
    IF ip.v = 4 THEN ip.o[1] = 127 ELSE ip.o = <<0, 0, 0, 0, 0, 0, 0, 1>>

\* C25: the severity of a connection is Low for a loopback address;
\* otherwise Medium for a private IPv4 address, whatever the port; otherwise
\* High for ports 22, 21, 23, 3389, Low for 80 and 443, Medium for any other
\* port below 1024 and Low for every other port.
ConnectionSeverityOrder ==
    sout # "none" =>
        sout = (IF LoopbackAddress(sin.ip) THEN "Low"
                ELSE IF sin.ip.v = 4 /\ Rfc1918(sin.ip.o) THEN "Medium"
                ELSE IF sin.port \in {22, 21, 23, 3389} THEN "High"
                ELSE IF sin.port \in {80, 443} THEN "Low"
                ELSE IF sin.port < 1024 THEN "Medium"
                ELSE "Low")

ConnectionSeverityOrderWitness ==
    /\ sout = "Medium"
    /\ sin.ip.v = 4 /\ Rfc1918(sin.ip.o)
    /\ sin.port = 22

\* -------------------------------------------------------- USB properties
\* the documented policy for insertions, in its order
DocumentedUsbSeverity(dev) ==
    IF dev.vendor_id \in {<<"f000">>, <<"dead">>} THEN "Critical"
    ELSE IF IsHidDevice(dev) THEN "High"
    ELSE IF IsMassStorageDevice(dev) THEN "Medium"
    ELSE IF dev.vendor_id = Absent \/ dev.product_id = Absent THEN "Medium"
    ELSE "Low"

\* C26: the event published for an Add has the severity of the documented
\* policy: Critical for vendor f000 or dead, else High for hid, keyboard or
\* mouse in the metadata, else Medium for mass_storage, storage or disk, else
\* Low, or Medium without identifiers.
UsbInsertionSeverity ==
    (usbIn.action = "Add" /\ published # <<>>) =>
        published[Len(published)].sev = DocumentedUsbSeverity(usbIn.dev)

\* C27: handling a Remove publishes one event, of severity Low; handling an
\* Add publishes one event; handling any other action publishes nothing.
UsbActionsPublish ==
    [][usbIn' # usbIn =>
          /\ usbIn'.action = "Remove" =>
                /\ Len(published') = Len(published) + 1
                /\ published'[Len(published')].sev = "Low"
                /\ published'[Len(published')].src = "usb"
          /\ usbIn'.action = "Add" =>
                /\ Len(published') = Len(published) + 1
                /\ published'[Len(published')].src = "usb"
          /\ usbIn'.action \notin {"Add", "Remove"} => published' = published]_vars

UsbActionsPublishWitness ==
    /\ usbIn.action = "Change" /\ usbIn.k = 1
    /\ Len(published) = 2
    /\ published[1].sev = "Critical" /\ published[2].sev = "Low"

\* ------------------------------------------------- port-scan properties
\* the ports a source was seen on during the last ScanWindow seconds
PortsInWindow(s) ==
    {o.port : o \in {q \in DOMAIN seen : q.src = s /\ now - seen[q] <= ScanWindow}}

\* C28: whenever a remote source has been seen on ScanThreshold or more
\* distinct ports within ScanWindow seconds, a PortScanDetected alert for
\* that source exists that counts at least those ports, whatever was tracked
\* of the source before.
PortScanDetection ==
    \A s \in ScanSources :
        (~IsLoopback(s) /\ Cardinality(PortsInWindow(s)) >= ScanThreshold) =>
            \E k \in 1..Len(alerts) :
                /\ alerts[k].source_ip = s
                /\ alerts[k].ports_scanned >= Cardinality(PortsInWindow(s))

\* ------------------------------------------------------ client properties
\* C29: a connection whose client is in monitor mode and that has caught up
\* without lag has been written the events the ring held when the client
\* connected and then every event published since.
MonitorReplaysBuffer ==
    \A c \in Clients :
        ( /\ cmode[c] = "monitor" /\ cl[c] = "open"
          /\ hc[c] = "running" /\ lagged[c] = 0 /\ rxnext[c] = tail )
        => written[c] = SubSeq(published, Max(connAt[c] - BufLen, 0) + 1, tail)

\* C30: every event a listen-mode client has displayed has a timestamp
\* strictly later than the client's connection_time, and was published after
\* the client's connect() returned.
ListenShowsOnlyLater ==
    \A c \in Clients :
        cmode[c] = "listen" =>
            \A k \in 1..Len(shown[c]) :
                /\ shown[c][k].ts > connTime[c]
                /\ \E i \in (connAt[c] + 1)..Len(published) : published[i] = shown[c][k]

ListenShowsOnlyLaterWitness ==
    \E c \in Clients :
        /\ cmode[c] = "listen"
        /\ connAt[c] > 0
        /\ shown[c] # <<>>
        /\ Len(shown[c]) < rd[c]
LifecycleCheckEnds ==
    \/ chk'.cmd \in {"status", "stop"} /\ chk'.k # chk.k
    \/ \E d \in Daemons : dpc[d] = "daemonize" /\ dpc'[d] # "daemonize"

\* C33: at the end of every lifecycle check the PID file is absent or names
\* a live process.
PidFileLiveOrDeleted ==
    [][LifecycleCheckEnds => (pidFile' = "absent" \/ PidAlive(pidFile)')]_vars

\* ---------------------------------------------------- producer properties
\* C34: the details of every event a producer sends hold one of the four
\* severities and a description that is not the empty text.
SeverityAndDescription ==
    dout.sent => (dout.severity \in Severities /\ dout.description # <<>>)

\* an insertion of a device without vendor and product ids has been described
SeverityAndDescriptionWitness ==
    /\ din.producer = "usb"
    /\ din.arg.action = "Add"
    /\ din.arg.dev.vendor_id = Absent
    /\ dout.sent

\* C35: the step in which a process's start fails on a live peer leaves the
\* socket file in place, and the peer can still be connected to at the path.
FailedStartKeepsSocket ==
    [][\A d \in Daemons :
          (dpc[d] = "start" /\ dpc'[d] = "exited" /\ probe'[d] = "live")
              => (sockFile' = sockFile /\ ConnectOk(sockFile)')]_vars

\* C36: every send of a producer succeeds, whatever the number of connected
\* clients and however far the channel has moved past the monitor's own
\* receiver: the channel advances by the event sent.
PublishNeverFails ==
    [][created' = created + 1 =>
          /\ tail' = tail + 1
          /\ published' = Append(published, published'[Len(published')])
          /\ published'[Len(published')].id = created']_vars

\* the ring has wrapped past the monitor's unread receiver with no client
\* ever connected
PublishNeverFailsWitness ==
    /\ tail > BufLen
    /\ \A c \in Clients : hc[c] = "none"

\* ------------------------------------------------------ cooldown properties
\* the cooldown_seconds of the rule of that name
CooldownSecondsOf(name) ==
    Triggers[CHOOSE j \in 1..Len(Triggers) : Triggers[j].name = name].cooldown_seconds

\* C37: the cooldown entry of a rule is the instant of its last accepted
\* fire and of nothing else, and an event is refused by a rule's cooldown only
\* when the rule was fired less than cooldown_seconds before it.
RejectionKeepsLastFire ==
    /\ \A n \in DOMAIN cooldowns :
          \/ fpc = "exec" /\ Triggers[ri].name = n
          \/ \E k \in 1..Len(launches) :
                /\ launches[k].rule = n
                /\ launches[k].at = cooldowns[n]
    /\ \A r \in evlog :
          r.res = "cooldown" =>
              \E k \in 1..Len(launches) :
                  /\ launches[k].rule = r.rule
                  /\ launches[k].at <= r.at
                  /\ r.at - launches[k].at < CooldownSecondsOf(r.rule)

\* a rule was fired, refused an event inside its cooldown, and was fired
\* again exactly cooldown_seconds after the first fire
RejectionKeepsLastFireWitness ==
    \E r \in evlog : \E k1, k2 \in 1..Len(launches) :
        /\ r.res = "cooldown"
        /\ launches[k1].rule = r.rule /\ launches[k2].rule = r.rule
        /\ launches[k1].at < r.at /\ r.at < launches[k2].at
        /\ launches[k2].at = launches[k1].at + CooldownSecondsOf(r.rule)

\* C38: the events one tick of the poller emits are for pairwise distinct
\* remote endpoints.
OneEventPerEndpoint ==
    [][\A k1, k2 \in (Len(netlog) + 1)..Len(netlog') :
          k1 # k2 => netlog'[k1].remote # netlog'[k2].remote]_vars

\* ------------------------------------------- default configuration properties
\* C39: once the engine has been handed an event of every kind the daemon
\* hands it, every enabled rule of the default configuration has accepted one.
DefaultRulesCanFire ==
    handed = HandedKinds =>
        \A j \in 1..Len(DefaultTriggers) :
            DefaultTriggers[j].enabled => DefaultTriggers[j].name \in fired

\* ---------------------------------------------------- notification properties
\* C40: no more than NotifyMax calls returned true within any window of
\* NotifyWindow, and two calls that returned true for the same key are at
\* least the key's cooldown apart.
NotificationRateLimit ==
    /\ \A s \in nsent :
          Cardinality({r \in nsent : r.at <= s.at /\ s.at - r.at < NotifyWindow})
              <= NotifyMax
    /\ \A r1, r2 \in nsent :
          (r1.key = r2.key /\ r1.at < r2.at)
              => r2.at - r1.at >= CooldownDuration(r1.key)

\* the limit has been reached within one window, an alert of a third key was
\* refused for it, and a key has been notified a second time after its cooldown
NotificationRateLimitWitness ==
    /\ \E s \in nsent :
          Cardinality({r \in nsent : r.at <= s.at /\ s.at - r.at < NotifyWindow})
              = NotifyMax
    /\ \E k \in DOMAIN ncool : \A r \in nsent : r.key = k => r.at # ncool[k]
    /\ \E r1, r2 \in nsent :
          r1.key = r2.key /\ r2.at = r1.at + CooldownDuration(r1.key)
====
